---- MODULE Spec2Model ----
(***************************************************************************)
(* Stock ledger (services/stock_service.py), its reconciliation from the   *)
(* external file (services/excel_service.py) and from the remote API       *)
(* (agents/agent2_warehouse.py), and the audit log (database.py).          *)
(*                                                                         *)
(* Every thread is a program counter walking through the body of the       *)
(* method it is in.  A StockService method is entered by acquiring the     *)
(* reentrant lock (`with self.lock:`), runs its body one read or write of  *)
(* self.stock at a time, and leaves through Exit, which releases the lock. *)
(***************************************************************************)
EXTENDS Integers, Sequences, FiniteSets, TLC

(* ----------------------------- bounds ---------------------------------- *)
MaxQty == 2

Products == {"A", "B"}
ProductOrder == {<<"A", "A">>, <<"A", "B">>, <<"B", "B">>}
Threads == {1, 2}
NoThread == 0

Qty == 0..MaxQty
\* amounts a caller may pass to deduct: the code accepts any int
Amounts == (0 - 1)..MaxQty

(* ------------------------- python dict helpers ------------------------- *)
EmptyMap == [p \in {} |-> 0]

DictGet(d, k, default) == IF k \in DOMAIN d THEN d[k] ELSE default

DictSet(d, k, v) == [x \in DOMAIN d \cup {k} |-> IF x = k THEN v ELSE d[x]]

DictUpdateReplace(d, m) == m

\* dict.update: entries of m override, every other entry of d is kept
DictUpdate(d, m) ==
  [x \in DOMAIN d \cup DOMAIN m |-> IF x \in DOMAIN m THEN m[x] ELSE d[x]]

Ledgers == UNION {[D -> Qty] : D \in SUBSET Products}

VARIABLES
  stock,      \* StockService.stock, the in-memory ledger
  stockFile,  \* the content of stock.json
  faulty,     \* whether the environment's file and database writes may fail
  lockOwner,  \* StockService.lock: the owning thread, NoThread when free
  lockCount,  \* StockService.lock: the owner's recursion level
  pc,         \* per thread: the place in the code
  op,         \* per thread: the StockService call in progress
  ret,        \* per thread: the value the last StockService call returned
  pre,        \* per thread: the ledger and file when the call got the lock
  tmp,        \* per thread: the quantity a read-modify-write has loaded
  todo,       \* per thread: entries of a bulk update not yet applied
  cont,       \* per thread: where the caller of the StockService call resumes
  q0,         \* the ledger the run started from
  okSum,      \* per product: sum of the amounts of the deducts that returned success
  excel,      \* the external file at ExcelService.excel_path
  audit,      \* the rows of table stock_history, oldest first
  sy,         \* per thread: the locals of the reconciliation in progress
  opPre,      \* per thread: ledger, file and audit log when the reconciliation began
  result,     \* per thread: what the reconciliation handed to its caller
  lastSync,   \* the file content of the last completed sync_from_excel, if
              \* nothing has touched the ledger since
  nOps,       \* reconciliations started: all of them, those from the API
  mtime,      \* os.path.getmtime of the external file: the time of its last change
  last_modified_time,  \* ExcelService.last_modified_time
  monitoring_active,   \* ExcelService.monitoring_active
  mon,        \* per thread: the locals of the monitor loop it runs, and
              \* what the loop did in its current tick
  selfTimes   \* the timestamps the file got from write_stock

ledgerVars == <<stock, stockFile, faulty, lockOwner, lockCount, pc, op, ret,
                pre, tmp, todo, cont, q0>>
syncVars == <<excel, audit, sy, opPre, result, lastSync, nOps>>
watchVars == <<mtime, last_modified_time, monitoring_active, mon, selfTimes>>
vars == <<stock, stockFile, faulty, lockOwner, lockCount, pc, op, ret,
          pre, tmp, todo, cont, q0, okSum, excel, audit, sy, opPre, result,
          lastSync, nOps, mtime, last_modified_time, monitoring_active, mon,
          selfTimes>>

(* ------------------------------ values --------------------------------- *)
NoOp == [name |-> "none", p |-> "A", q |-> 0, m |-> EmptyMap]
\* obj tells which dict object a returned map is: "copy" is an object of
\* its own whose content is snap, "ledger" is self.stock itself
NoRet ==
  [ok |-> FALSE, val |-> 0, snap |-> EmptyMap, obj |-> "none", msg |-> "none"]
NoPre == [stock |-> EmptyMap, file |-> EmptyMap]

GetCall(p) == [name |-> "get", p |-> p, q |-> 0, m |-> EmptyMap]
GetAllCall == [name |-> "get_all", p |-> "A", q |-> 0, m |-> EmptyMap]
UpdateCall(p, q) == [name |-> "update", p |-> p, q |-> q, m |-> EmptyMap]
UpdateBulkCall(m) == [name |-> "update_bulk", p |-> "A", q |-> 0, m |-> m]
DeductCall(p, d) == [name |-> "deduct", p |-> p, q |-> d, m |-> EmptyMap]
AddCall(p, n) == [name |-> "add", p |-> p, q |-> n, m |-> EmptyMap]
CheckAvailabilityCall(p, n) ==
  [name |-> "check_availability", p |-> p, q |-> n, m |-> EmptyMap]

\* the calls a request handler may make, kept within the model's quantities
Calls(s) ==
  {GetCall(p) : p \in Products} \cup {GetAllCall}
  \cup {CheckAvailabilityCall(p, n) : p \in Products, n \in Amounts}
  \cup {UpdateCall(p, q) : p \in Products, q \in Qty}
  \cup {UpdateBulkCall(m) : m \in Ledgers}
  \cup {c \in {DeductCall(p, d) : p \in Products, d \in Amounts} :
          DictGet(s, c.p, 0) - c.q <= MaxQty}
  \cup {c \in {AddCall(p, n) : p \in Products, n \in Qty} :
          DictGet(s, c.p, 0) + c.q <= MaxQty}

DeductCalls == {DeductCall(p, d) : p \in Products, d \in 1..MaxQty}

(* ------------------------------- lock ---------------------------------- *)
CanAcquireNoLock(t) == TRUE

\* threading.RLock: free, or already held by the same thread
CanAcquire(t) == lockOwner = NoThread \/ lockOwner = t

\* `with self.lock:` at the head of a StockService method; k is where the
\* caller goes on when the method has returned
EnterCall(t, c, k) ==
  /\ CanAcquire(t)
  /\ lockOwner' = t
  /\ lockCount' = lockCount + 1
  /\ op' = [op EXCEPT ![t] = c]
  /\ pre' = [pre EXCEPT ![t] = [stock |-> stock, file |-> stockFile]]
  /\ cont' = [cont EXCEPT ![t] = k]
  /\ pc' = [pc EXCEPT ![t] = c.name]
  /\ ret' = [ret EXCEPT ![t] = NoRet]
  /\ todo' = [todo EXCEPT ![t] = DOMAIN c.m]
  /\ UNCHANGED <<stock, stockFile, faulty, tmp, q0>>

\* a request handler calls a StockService method
Call(t) ==
  /\ pc[t] = "idle"
  /\ \E c \in Calls(stock) : EnterCall(t, c, "idle")

CallDeduct(t) ==
  /\ pc[t] = "idle"
  /\ \E c \in DeductCalls : EnterCall(t, c, "idle")

(* ------------------------- StockService bodies ------------------------- *)
Return(t, r) ==
  /\ ret' = [ret EXCEPT ![t] = r]
  /\ pc' = [pc EXCEPT ![t] = "exit"]

GetAllAlias(t) ==
  /\ pc[t] = "get_all"
  /\ Return(t, [NoRet EXCEPT !.ok = TRUE, !.snap = stock, !.obj = "ledger"])
  /\ UNCHANGED <<stock, stockFile, faulty, lockOwner, lockCount, op, pre,
                 tmp, todo, cont, q0>>

\* return dict(self.stock): a new dict with the ledger's entries
GetAll(t) ==
  /\ pc[t] = "get_all"
  /\ Return(t, [NoRet EXCEPT !.ok = TRUE, !.snap = stock, !.obj = "copy"])
  /\ UNCHANGED <<stock, stockFile, faulty, lockOwner, lockCount, op, pre,
                 tmp, todo, cont, q0>>

GetSetDefault(t) ==
  /\ pc[t] = "get"
  /\ stock' = DictSet(stock, op[t].p, DictGet(stock, op[t].p, 0))
  /\ Return(t, [NoRet EXCEPT !.ok = TRUE, !.val = DictGet(stock, op[t].p, 0)])
  /\ UNCHANGED <<stockFile, faulty, lockOwner, lockCount, op, pre,
                 tmp, todo, cont, q0>>

\* return self.stock.get(product, 0)
Get(t) ==
  /\ pc[t] = "get"
  /\ Return(t, [NoRet EXCEPT !.ok = TRUE, !.val = DictGet(stock, op[t].p, 0)])
  /\ UNCHANGED <<stock, stockFile, faulty, lockOwner, lockCount, op, pre,
                 tmp, todo, cont, q0>>

\* available = self.stock.get(product, 0)
\* return available >= quantity, available
CheckAvailability(t) ==
  /\ pc[t] = "check_availability"
  /\ LET available == DictGet(stock, op[t].p, 0)
     IN Return(t, [NoRet EXCEPT !.ok = (available >= op[t].q),
                                !.val = available])
  /\ UNCHANGED <<stock, stockFile, faulty, lockOwner, lockCount, op, pre,
                 tmp, todo, cont, q0>>

UpdateIfAbsent(t) ==
  /\ pc[t] = "update"
  /\ stock' = IF op[t].p \in DOMAIN stock THEN stock
                ELSE DictSet(stock, op[t].p, op[t].q)
  /\ pc' = [pc EXCEPT ![t] = "save"]
  /\ UNCHANGED <<stockFile, faulty, lockOwner, lockCount, op, ret, pre,
                 tmp, todo, cont, q0>>

Update(t) ==
  /\ pc[t] = "update"
  /\ stock' = DictSet(stock, op[t].p, op[t].q)
  /\ pc' = [pc EXCEPT ![t] = "save"]
  /\ UNCHANGED <<stockFile, faulty, lockOwner, lockCount, op, ret, pre,
                 tmp, todo, cont, q0>>

\* self.stock.update(stock_dict), one entry at a time
UpdateBulk(t) ==
  /\ pc[t] = "update_bulk"
  /\ IF todo[t] = {}
       THEN /\ pc' = [pc EXCEPT ![t] = "save"]
            /\ UNCHANGED <<stock, todo>>
       ELSE \E p \in todo[t] :
              /\ stock' = DictUpdate(stock, [x \in {p} |-> op[t].m[x]])
              /\ todo' = [todo EXCEPT ![t] = todo[t] \ {p}]
              /\ UNCHANGED pc
  /\ UNCHANGED <<stockFile, faulty, lockOwner, lockCount, op, ret, pre,
                 tmp, cont, q0>>

NotFound(s, p) == p \notin DOMAIN s

InsufficientOffByOne(s, p, d) == s[p] <= d

InsufficientLax(s, p, d) == s[p] < d - 1

Insufficient(s, p, d) == s[p] < d

DeductCheckPartial(t) ==
  /\ pc[t] = "deduct"
  /\ IF NotFound(stock, op[t].p)
       THEN /\ Return(t, [NoRet EXCEPT !.msg = "not_found"])
            /\ UNCHANGED stock
       ELSE IF Insufficient(stock, op[t].p, op[t].q)
         THEN /\ Return(t, [NoRet EXCEPT !.msg = "insufficient"])
              /\ stock' = DictSet(stock, op[t].p, 0)
         ELSE /\ pc' = [pc EXCEPT ![t] = "deduct_load"]
              /\ UNCHANGED <<ret, stock>>
  /\ UNCHANGED <<stockFile, faulty, lockOwner, lockCount, op, pre,
                 tmp, todo, cont, q0>>

\* the two early returns of deduct
DeductCheck(t) ==
  /\ pc[t] = "deduct"
  /\ IF NotFound(stock, op[t].p)
       THEN Return(t, [NoRet EXCEPT !.msg = "not_found"])
       ELSE IF Insufficient(stock, op[t].p, op[t].q)
         THEN Return(t, [NoRet EXCEPT !.msg = "insufficient"])
         ELSE /\ pc' = [pc EXCEPT ![t] = "deduct_load"]
              /\ UNCHANGED ret
  /\ UNCHANGED <<stock, stockFile, faulty, lockOwner, lockCount, op, pre,
                 tmp, todo, cont, q0>>

\* self.stock[product] -= quantity: the load ...
DeductLoad(t) ==
  /\ pc[t] = "deduct_load"
  /\ tmp' = [tmp EXCEPT ![t] = DictGet(stock, op[t].p, 0)]
  /\ pc' = [pc EXCEPT ![t] = "deduct_store"]
  /\ UNCHANGED <<stock, stockFile, faulty, lockOwner, lockCount, op, ret,
                 pre, todo, cont, q0>>

\* ... and the store
DeductStore(t) ==
  /\ pc[t] = "deduct_store"
  /\ stock' = DictSet(stock, op[t].p, tmp[t] - op[t].q)
  /\ tmp' = [tmp EXCEPT ![t] = 0]
  /\ pc' = [pc EXCEPT ![t] = "save"]
  /\ UNCHANGED <<stockFile, faulty, lockOwner, lockCount, op, ret, pre,
                 todo, cont, q0>>

\* current = self.stock.get(product, 0)
AddLoad(t) ==
  /\ pc[t] = "add"
  /\ tmp' = [tmp EXCEPT ![t] = DictGet(stock, op[t].p, 0)]
  /\ pc' = [pc EXCEPT ![t] = "add_store"]
  /\ UNCHANGED <<stock, stockFile, faulty, lockOwner, lockCount, op, ret,
                 pre, todo, cont, q0>>

AddStoreOverwrite(t) ==
  /\ pc[t] = "add_store"
  /\ stock' = DictSet(stock, op[t].p, op[t].q)
  /\ tmp' = [tmp EXCEPT ![t] = 0]
  /\ pc' = [pc EXCEPT ![t] = "save"]
  /\ UNCHANGED <<stockFile, faulty, lockOwner, lockCount, op, ret, pre,
                 todo, cont, q0>>

\* self.stock[product] = current + quantity
AddStore(t) ==
  /\ pc[t] = "add_store"
  /\ stock' = DictSet(stock, op[t].p, tmp[t] + op[t].q)
  /\ tmp' = [tmp EXCEPT ![t] = 0]
  /\ pc' = [pc EXCEPT ![t] = "save"]
  /\ UNCHANGED <<stockFile, faulty, lockOwner, lockCount, op, ret, pre,
                 todo, cont, q0>>

\* save(): the nested `with self.lock:`
SaveEnter(t) ==
  /\ pc[t] = "save"
  /\ CanAcquire(t)
  /\ lockOwner' = t
  /\ lockCount' = lockCount + 1
  /\ pc' = [pc EXCEPT ![t] = "save_io"]
  /\ UNCHANGED <<stock, stockFile, faulty, op, ret, pre, tmp, todo, cont, q0>>

SaveWriteRollback(t) ==
  /\ pc[t] = "save_io"
  /\ \/ stockFile' = stock /\ UNCHANGED stock
     \/ faulty /\ UNCHANGED stockFile /\ stock' = pre[t].stock
  /\ lockCount' = lockCount - 1
  /\ Return(t, [NoRet EXCEPT !.ok = TRUE, !.msg = "ok"])
  /\ UNCHANGED <<faulty, lockOwner, op, pre, tmp, todo, cont, q0>>

\* save(): json.dump to the file; an I/O error is logged and swallowed.
\* Leaving save releases the nested acquisition; the mutator then returns.
SaveWrite(t) ==
  /\ pc[t] = "save_io"
  /\ \/ stockFile' = stock
     \/ faulty /\ UNCHANGED stockFile
  /\ lockCount' = lockCount - 1
  /\ Return(t, [NoRet EXCEPT !.ok = TRUE, !.msg = "ok"])
  /\ UNCHANGED <<stock, faulty, lockOwner, op, pre, tmp, todo, cont, q0>>

ExitHoldingLock(t) ==
  /\ pc[t] = "exit"
  /\ lockCount' = lockCount - 1
  /\ pc' = [pc EXCEPT ![t] = cont[t]]
  /\ op' = [op EXCEPT ![t] = NoOp]
  /\ pre' = [pre EXCEPT ![t] = NoPre]
  /\ cont' = [cont EXCEPT ![t] = "idle"]
  /\ ret' = [ret EXCEPT ![t] = IF cont[t] = "idle" THEN NoRet ELSE ret[t]]
  /\ UNCHANGED <<stock, stockFile, faulty, lockOwner, tmp, todo, q0>>

\* the end of `with self.lock:`; the method's value reaches its caller
Exit(t) ==
  /\ pc[t] = "exit"
  /\ lockCount' = lockCount - 1
  /\ lockOwner' = IF lockCount - 1 <= 0 THEN NoThread ELSE lockOwner
  /\ pc' = [pc EXCEPT ![t] = cont[t]]
  /\ op' = [op EXCEPT ![t] = NoOp]
  /\ pre' = [pre EXCEPT ![t] = NoPre]
  /\ cont' = [cont EXCEPT ![t] = "idle"]
  /\ ret' = [ret EXCEPT ![t] = IF cont[t] = "idle" THEN NoRet ELSE ret[t]]
  /\ UNCHANGED <<stock, stockFile, faulty, tmp, todo, q0>>

\* what may be at stock_file besides a ledger that save() wrote: nothing
\* (open raises FileNotFoundError), or text json.load refuses
NoStockFile == [x \in {"<no file>"} |-> 0]
CorruptStockFile == [x \in {"<not json>"} |-> 0]

LoadIgnoringFile(f) == EmptyMap

\* load(): the dict in the file, or {} when there is no file or it
\* cannot be read
Load(f) == IF f \in {NoStockFile, CorruptStockFile} THEN EmptyMap ELSE f

\* the process starts again: StockService.__init__ builds a new lock and
\* ledger and loads the file; nothing of the old process is left
Construct ==
  /\ lockOwner = NoThread
  /\ \A t \in Threads : pc[t] = "idle"
  /\ stock' = Load(stockFile)
  /\ q0' = Load(stockFile)
  /\ lockCount' = 0
  /\ UNCHANGED <<stockFile, faulty, lockOwner, pc, op, ret, pre, tmp, todo,
                 cont>>

\* a dict without the entry of k
DictDel(d, k) == [x \in DOMAIN d \ {k} |-> d[x]]

\* what a caller can do to a dict it holds: set, add or delete an entry
DictEdits(d) ==
  ({DictSet(d, p, q) : p \in Products, q \in Qty}
     \cup {DictDel(d, p) : p \in Products}) \ {d}

\* the content of the map thread t got from get_all
HeldMap(t) == IF ret[t].obj = "ledger" THEN stock ELSE ret[t].snap

\* a caller asks for the whole ledger and keeps the returned map
HoldCall(t) ==
  /\ pc[t] = "idle"
  /\ EnterCall(t, GetAllCall, "hold")

\* the caller changes the map it holds; the change lands in the object
\* the map is
HolderEdit(t) ==
  /\ pc[t] = "hold"
  /\ \E m \in DictEdits(HeldMap(t)) :
       IF ret[t].obj = "ledger"
         THEN stock' = m /\ UNCHANGED ret
         ELSE ret' = [ret EXCEPT ![t].snap = m] /\ UNCHANGED stock
  /\ pc' = [pc EXCEPT ![t] = "hold_edited"]
  /\ UNCHANGED <<stockFile, faulty, lockOwner, lockCount, op, pre, tmp,
                 todo, cont, q0>>

\* the caller is done with the map
HolderDrop(t) ==
  /\ pc[t] = "hold_edited"
  /\ ret' = [ret EXCEPT ![t] = NoRet]
  /\ pc' = [pc EXCEPT ![t] = "idle"]
  /\ UNCHANGED <<stock, stockFile, faulty, lockOwner, lockCount, op, pre,
                 tmp, todo, cont, q0>>

\* Exit of a deduct: its success is credited to the product
ExitDeduct(t) ==
  /\ Exit(t)
  /\ okSum' = IF op[t].name = "deduct" /\ ret[t].ok
                THEN [okSum EXCEPT ![op[t].p] = @ + op[t].q]
                ELSE okSum

(* -------------------- external sources and parsing --------------------- *)
MaxCell == 1
MaxOps == 2
MaxApis == 1

\* a quantity as a source holds it: an integer, a float with a fractional
\* part (v is its integer part), or something int() refuses (text, an
\* empty cell, null)
IntCell(n) == [t |-> "int", v |-> n]
FracCell(n) == [t |-> "frac", v |-> n]
TextCell == [t |-> "text", v |-> 0]
Cells == {IntCell(n) : n \in (0 - 1)..MaxCell} \cup {FracCell(1), TextCell}

\* int(x): truncates a float, raises ValueError/TypeError on the rest
PyInt(c) == [ok |-> c.t # "text", v |-> c.v]

\* the rows of a sheet that lists the products of d, one row each
RECURSIVE RowsOf(_, _)
RowsOf(d, D) ==
  IF D = {} THEN <<>>
  ELSE LET p == CHOOSE x \in D : \A y \in D : <<x, y>> \in ProductOrder
       IN <<[product |-> p, cell |-> d[p]]>> \o RowsOf(d, D \ {p})

MissingFile == [kind |-> "missing", rows |-> <<>>]
NoColumnsFile == [kind |-> "nocolumns", rows |-> <<>>]
CorruptFile == [kind |-> "corrupt", rows |-> <<>>]
ValidFile(rows) == [kind |-> "valid", rows |-> rows]
ExcelFiles ==
  {MissingFile, NoColumnsFile, CorruptFile}
  \cup {ValidFile(RowsOf(d, DOMAIN d)) :
          d \in UNION {[D -> Cells] : D \in SUBSET Products}}

\* the loop over df.iterrows(): a row that int() accepts with a
\* non-negative value sets its product, any other row is skipped
RECURSIVE ParseRows(_, _)
ParseRows(rows, stock_data) ==
  IF Len(rows) = 0 THEN stock_data
  ELSE LET row == Head(rows)
           quantity == PyInt(row.cell)
       IN ParseRows(Tail(rows),
                    IF quantity.ok /\ quantity.v >= 0
                      THEN DictSet(stock_data, row.product, quantity.v)
                      ELSE stock_data)

ReadStockLenient(f) ==
  IF f.kind \in {"missing", "corrupt"}
    THEN [success |-> FALSE, message |-> f.kind, data |-> EmptyMap]
    ELSE [success |-> TRUE, message |-> "ok", data |-> ParseRows(f.rows, EmptyMap)]

\* ExcelService.read_stock: (success, message, stock_dict)
ReadStock(f) ==
  CASE f.kind = "missing" ->
         [success |-> FALSE, message |-> "not_found", data |-> EmptyMap]
    [] f.kind = "nocolumns" ->
         [success |-> FALSE, message |-> "missing_columns", data |-> EmptyMap]
    [] f.kind = "corrupt" ->
         [success |-> FALSE, message |-> "error", data |-> EmptyMap]
    [] OTHER ->
         [success |-> TRUE, message |-> "ok", data |-> ParseRows(f.rows, EmptyMap)]

\* what requests.get(...) and response.json() can come back with
ApiFailures == {"timeout", "request_error", "bad_body", "no_stock_key"}
ApiResponses ==
  {[kind |-> k, data |-> EmptyMap] : k \in ApiFailures}
  \cup {[kind |-> "ok", data |-> d] :
          d \in UNION {[D -> Cells] : D \in SUBSET Products}}

(* --------------------------- ChangeTracker ----------------------------- *)
PartNames == {"added", "removed", "increased", "decreased", "unchanged"}

NoChanges == [k \in PartNames |-> EmptyMap]

RECURSIVE TrackLoopInclusive(_, _, _, _)
TrackLoopInclusive(old_stock, new_stock, all_products, changes) ==
  IF all_products = {} THEN changes
  ELSE LET product == CHOOSE x \in all_products : TRUE
           old_qty == DictGet(old_stock, product, 0)
           new_qty == DictGet(new_stock, product, 0)
           next ==
             IF product \notin DOMAIN old_stock
               THEN [changes EXCEPT !["added"] = DictSet(@, product, new_qty)]
             ELSE IF product \notin DOMAIN new_stock
               THEN [changes EXCEPT !["removed"] = DictSet(@, product, old_qty)]
             ELSE IF new_qty >= old_qty
               THEN [changes EXCEPT !["increased"] =
                       DictSet(@, product, [old |-> old_qty, new |-> new_qty,
                                            change |-> new_qty - old_qty])]
             ELSE [changes EXCEPT !["decreased"] =
                     DictSet(@, product, [old |-> old_qty, new |-> new_qty,
                                          change |-> old_qty - new_qty])]
       IN TrackLoopInclusive(old_stock, new_stock, all_products \ {product},
                             next)

RECURSIVE TrackLoopByQuantity(_, _, _, _)
TrackLoopByQuantity(old_stock, new_stock, all_products, changes) ==
  IF all_products = {} THEN changes
  ELSE LET product == CHOOSE x \in all_products : TRUE
           old_qty == DictGet(old_stock, product, 0)
           new_qty == DictGet(new_stock, product, 0)
           next ==
             IF new_qty > old_qty
               THEN [changes EXCEPT !["increased"] =
                       DictSet(@, product, [old |-> old_qty, new |-> new_qty,
                                            change |-> new_qty - old_qty])]
             ELSE IF new_qty < old_qty
               THEN [changes EXCEPT !["decreased"] =
                       DictSet(@, product, [old |-> old_qty, new |-> new_qty,
                                            change |-> old_qty - new_qty])]
             ELSE [changes EXCEPT !["unchanged"] = DictSet(@, product, new_qty)]
       IN TrackLoopByQuantity(old_stock, new_stock, all_products \ {product},
                              next)

RECURSIVE TrackLoop(_, _, _, _)
TrackLoop(old_stock, new_stock, all_products, changes) ==
  IF all_products = {} THEN changes
  ELSE LET product == CHOOSE x \in all_products : TRUE
           old_qty == DictGet(old_stock, product, 0)
           new_qty == DictGet(new_stock, product, 0)
           next ==
             IF product \notin DOMAIN old_stock
               THEN [changes EXCEPT !["added"] = DictSet(@, product, new_qty)]
             ELSE IF product \notin DOMAIN new_stock
               THEN [changes EXCEPT !["removed"] = DictSet(@, product, old_qty)]
             ELSE IF new_qty > old_qty
               THEN [changes EXCEPT !["increased"] =
                       DictSet(@, product, [old |-> old_qty, new |-> new_qty,
                                            change |-> new_qty - old_qty])]
             ELSE IF new_qty < old_qty
               THEN [changes EXCEPT !["decreased"] =
                       DictSet(@, product, [old |-> old_qty, new |-> new_qty,
                                            change |-> old_qty - new_qty])]
             ELSE [changes EXCEPT !["unchanged"] = DictSet(@, product, new_qty)]
       IN TrackLoop(old_stock, new_stock, all_products \ {product}, next)

TrackChangesNewOnly(old_stock, new_stock) ==
  TrackLoop(old_stock, new_stock, DOMAIN new_stock, NoChanges)

\* ExcelService.track_changes
TrackChanges(old_stock, new_stock) ==
  TrackLoop(old_stock, new_stock, DOMAIN old_stock \cup DOMAIN new_stock,
            NoChanges)

(* ------------------------------ AuditLog ------------------------------- *)
AuditEntry(product, change, new, reason) ==
  [product |-> product, quantity_change |-> change, new_quantity |-> new,
   reason |-> reason]

\* log_stock_change: the row is inserted; or the insert fails and the
\* error is logged and swallowed; or sqlite3.connect itself fails, outside
\* the try, and the exception reaches the caller
LogOutcomes == IF faulty THEN {"ok", "lost", "raise"} ELSE {"ok"}

LogStockChangeOverwrite(o, e) ==
  audit' = IF o # "ok" THEN audit
           ELSE IF Len(audit) = 0 THEN <<e>>
           ELSE [audit EXCEPT ![Len(audit)] = e]

LogStockChangeTwice(o, e) ==
  audit' = IF o = "ok" THEN Append(Append(audit, e), e) ELSE audit

LogStockChange(o, e) ==
  audit' = IF o = "ok" THEN Append(audit, e) ELSE audit

(* ----------------------- reconciliation locals ------------------------- *)
NoSy ==
  [src |-> MissingFile, resp |-> "none", success |-> FALSE,
   message |-> "none", new |-> EmptyMap, raw |-> EmptyMap, old |-> EmptyMap,
   changes |-> EmptyMap, count |-> 0, logged |-> {}, left |-> {},
   cur |-> "A", qty |-> 0, oldq |-> 0, again |-> FALSE,
   order |-> <<>>, items |-> <<>>, failed_items |-> <<>>, deducted |-> <<>>,
   wrote |-> FALSE]
NoOpPre == [stock |-> EmptyMap, file |-> EmptyMap, audit |-> <<>>]
NoResult ==
  [op |-> "none", raised |-> FALSE, success |-> FALSE, changes |-> EmptyMap,
   count |-> 0, message |-> "none"]
NoLastSync == [valid |-> FALSE, file |-> MissingFile]

\* a reconciliation is entered: what it starts from is noted
Invoke(t, name) ==
  /\ nOps.all < MaxOps
  /\ name = "fetch_from_api" => nOps.api < MaxApis
  /\ nOps' = [all |-> nOps.all + 1,
              api |-> nOps.api + (IF name = "fetch_from_api" THEN 1 ELSE 0)]
  /\ opPre' = [opPre EXCEPT ![t] =
                 [stock |-> stock, file |-> stockFile, audit |-> audit]]
  /\ result' = [result EXCEPT ![t] = [NoResult EXCEPT !.op = name]]
  /\ sy' = [sy EXCEPT ![t] = NoSy]

\* a caller that is doing nothing else invokes a reconciliation
Begin(t, name) ==
  /\ pc[t] = "idle"
  /\ Invoke(t, name)

\* the value reaches the caller
Returned(t, r) ==
  /\ result' = [result EXCEPT ![t] = r]
  /\ pc' = [pc EXCEPT ![t] = "returned"]

\* an exception leaves sync_from_excel: a direct caller gets it, sync_excel
\* catches it and answers success False with five empty partitions
Raised(t) ==
  IF result[t].op = "sync_excel"
    THEN Returned(t, [result[t] EXCEPT !.success = FALSE,
                        !.changes = NoChanges, !.count = 0,
                        !.message = "exception"])
    ELSE Returned(t, [result[t] EXCEPT !.raised = TRUE,
                        !.message = "exception"])

(* ------------------ ExcelService.sync_from_excel ----------------------- *)
\* called directly (the watcher, the test script) or through sync_excel
SyncStart(t) ==
  /\ \E name \in {"sync_from_excel", "sync_excel"} : Begin(t, name)
  /\ pc' = [pc EXCEPT ![t] = "sy_read"]
  /\ UNCHANGED <<stock, stockFile, faulty, lockOwner, lockCount, op, ret,
                 pre, tmp, todo, cont, q0, okSum, excel, audit, lastSync>>

\* success, message, new_stock_data = self.read_stock(); on failure
\* return {}, 0
SyncRead(t) ==
  /\ pc[t] = "sy_read"
  /\ LET r == ReadStock(excel)
         s == [sy[t] EXCEPT !.src = excel, !.success = r.success,
                 !.message = r.message, !.new = r.data,
                 !.again = lastSync.valid /\ lastSync.file = excel]
     IN /\ sy' = [sy EXCEPT ![t] = s]
        /\ IF r.success
             THEN /\ pc' = [pc EXCEPT ![t] = "sy_get_all"]
                  /\ UNCHANGED <<result, lastSync>>
             ELSE /\ Returned(t, [result[t] EXCEPT !.success = TRUE,
                                    !.changes = EmptyMap, !.count = 0])
                  /\ lastSync' = NoLastSync
  /\ UNCHANGED <<stock, stockFile, faulty, lockOwner, lockCount, op, ret,
                 pre, tmp, todo, cont, q0, okSum, excel, audit, opPre,
                 nOps>>

\* old_stock = self.stock_service.get_all()
SyncGetAll(t) ==
  /\ pc[t] = "sy_get_all"
  /\ EnterCall(t, GetAllCall, "sy_track")
  /\ UNCHANGED <<okSum, syncVars>>

\* changes = self.track_changes(old_stock, new_stock_data)
SyncTrack(t) ==
  /\ pc[t] = "sy_track"
  /\ sy' = [sy EXCEPT ![t] =
              [@ EXCEPT !.old = ret[t].snap,
                        !.changes = TrackChanges(ret[t].snap, sy[t].new)]]
  /\ pc' = [pc EXCEPT ![t] = "sy_bulk"]
  /\ UNCHANGED <<stock, stockFile, faulty, lockOwner, lockCount, op, ret,
                 pre, tmp, todo, cont, q0, okSum, excel, audit, opPre,
                 result, lastSync, nOps>>

\* self.stock_service.update_bulk(new_stock_data)
SyncBulk(t) ==
  /\ pc[t] = "sy_bulk"
  /\ EnterCall(t, UpdateBulkCall(sy[t].new), "sy_log")
  /\ UNCHANGED <<okSum, syncVars>>

\* the four logging loops, in this order
LogOrder == <<"added", "removed", "increased", "decreased">>

Pending(t, k) == {p \in DOMAIN sy[t].changes[k] : <<k, p>> \notin sy[t].logged}

\* the loop the logging is in: the first with a product left, 0 when done
CurrentLoop(t) ==
  IF \E i \in 1..4 : Pending(t, LogOrder[i]) # {}
    THEN CHOOSE i \in 1..4 :
           /\ Pending(t, LogOrder[i]) # {}
           /\ \A j \in 1..(i - 1) : Pending(t, LogOrder[j]) = {}
    ELSE 0

SyncLogEntry(k, product, info) ==
  CASE k = "added" -> AuditEntry(product, info, info, "excel_added")
    [] k = "removed" -> AuditEntry(product, 0 - info, 0, "excel_removed")
    [] k = "increased" ->
         AuditEntry(product, info.change, info.new, "excel_increased")
    [] k = "decreased" ->
         AuditEntry(product, 0 - info.change, info.new, "excel_decreased")

\* log_stock_change(...); change_count += 1
SyncLog(t) ==
  /\ pc[t] = "sy_log"
  /\ CurrentLoop(t) # 0
  /\ LET k == LogOrder[CurrentLoop(t)]
     IN \E product \in Pending(t, k), o \in LogOutcomes :
          /\ LogStockChange(o, SyncLogEntry(k, product, sy[t].changes[k][product]))
          /\ IF o = "raise"
               THEN /\ Raised(t)
                    /\ lastSync' = NoLastSync
                    /\ UNCHANGED sy
               ELSE /\ sy' = [sy EXCEPT ![t] =
                               [@ EXCEPT !.count = @ + 1,
                                         !.logged = @ \cup {<<k, product>>}]]
                    /\ UNCHANGED <<pc, result, lastSync>>
  /\ UNCHANGED <<stock, stockFile, faulty, lockOwner, lockCount, op, ret,
                 pre, tmp, todo, cont, q0, okSum, excel, opPre, nOps>>

\* return changes, change_count; sync_excel wraps it with success True
SyncReturn(t) ==
  /\ pc[t] = "sy_log"
  /\ CurrentLoop(t) = 0
  /\ Returned(t, [result[t] EXCEPT !.success = TRUE,
                    !.changes = sy[t].changes, !.count = sy[t].count])
  /\ lastSync' = [valid |-> TRUE, file |-> sy[t].src]
  /\ UNCHANGED <<stock, stockFile, faulty, lockOwner, lockCount, op, ret,
                 pre, tmp, todo, cont, q0, okSum, excel, audit, sy, opPre,
                 nOps>>

(* --------------------------- fetch_from_api ---------------------------- *)
ApiStart(t) ==
  /\ Begin(t, "fetch_from_api")
  /\ pc' = [pc EXCEPT ![t] = "api_request"]
  /\ lastSync' = NoLastSync
  /\ UNCHANGED <<stock, stockFile, faulty, lockOwner, lockCount, op, ret,
                 pre, tmp, todo, cont, q0, okSum, excel, audit>>

\* requests.get, raise_for_status, response.json(), the 'stock' key
ApiRequest(t) ==
  /\ pc[t] = "api_request"
  /\ \E r \in ApiResponses :
       /\ sy' = [sy EXCEPT ![t] =
                   [@ EXCEPT !.resp = r.kind, !.raw = r.data,
                             !.left = DOMAIN r.data]]
       /\ IF r.kind = "ok"
            THEN /\ pc' = [pc EXCEPT ![t] = "api_loop"]
                 /\ UNCHANGED result
            ELSE Returned(t, [result[t] EXCEPT !.success = FALSE,
                                !.message = r.kind, !.count = 0])
  /\ UNCHANGED <<stock, stockFile, faulty, lockOwner, lockCount, op, ret,
                 pre, tmp, todo, cont, q0, okSum, excel, audit, opPre,
                 lastSync, nOps>>

\* for product, quantity in stock_data.items(): qty = int(quantity);
\* if qty >= 0: old_qty = stock_service.get(product)
ApiItem(t) ==
  /\ pc[t] = "api_loop"
  /\ \E product \in sy[t].left :
       LET qty == PyInt(sy[t].raw[product])
       IN IF qty.ok /\ qty.v >= 0
            THEN /\ EnterCall(t, GetCall(product), "api_update")
                 /\ sy' = [sy EXCEPT ![t] =
                             [@ EXCEPT !.left = @ \ {product},
                                       !.cur = product, !.qty = qty.v]]
            ELSE /\ sy' = [sy EXCEPT ![t] =
                             [@ EXCEPT !.left = @ \ {product}]]
                 /\ UNCHANGED ledgerVars
  /\ UNCHANGED <<okSum, excel, audit, opPre, result, lastSync, nOps>>

\* stock_service.update(product, qty)
ApiUpdate(t) ==
  /\ pc[t] = "api_update"
  /\ EnterCall(t, UpdateCall(sy[t].cur, sy[t].qty), "api_log")
  /\ sy' = [sy EXCEPT ![t] = [@ EXCEPT !.oldq = ret[t].val]]
  /\ UNCHANGED <<okSum, excel, audit, opPre, result, lastSync, nOps>>

\* log_stock_change(product, qty - old_qty, qty, 'api_import');
\* items_updated += 1.  An exception lands in `except Exception`.
ApiLog(t) ==
  /\ pc[t] = "api_log"
  /\ \E o \in LogOutcomes :
       /\ LogStockChange(o, AuditEntry(sy[t].cur, sy[t].qty - sy[t].oldq,
                                       sy[t].qty, "api_import"))
       /\ IF o = "raise"
            THEN /\ Returned(t, [result[t] EXCEPT !.success = FALSE,
                                   !.message = "exception", !.count = 0])
                 /\ UNCHANGED sy
            ELSE /\ sy' = [sy EXCEPT ![t] = [@ EXCEPT !.count = @ + 1]]
                 /\ pc' = [pc EXCEPT ![t] = "api_loop"]
                 /\ UNCHANGED result
  /\ UNCHANGED <<stock, stockFile, faulty, lockOwner, lockCount, op, ret,
                 pre, tmp, todo, cont, q0, okSum, excel, opPre, lastSync,
                 nOps>>

\* return True, message, items_updated
ApiReturn(t) ==
  /\ pc[t] = "api_loop"
  /\ sy[t].left = {}
  /\ Returned(t, [result[t] EXCEPT !.success = TRUE, !.message = "ok",
                    !.count = sy[t].count])
  /\ UNCHANGED <<stock, stockFile, faulty, lockOwner, lockCount, op, ret,
                 pre, tmp, todo, cont, q0, okSum, excel, audit, sy, opPre,
                 lastSync, nOps>>

\* the caller has taken the result
Finish(t) ==
  /\ pc[t] = "returned"
  /\ pc' = [pc EXCEPT ![t] = "idle"]
  /\ sy' = [sy EXCEPT ![t] = NoSy]
  /\ opPre' = [opPre EXCEPT ![t] = NoOpPre]
  /\ result' = [result EXCEPT ![t] = NoResult]
  /\ ret' = [ret EXCEPT ![t] = NoRet]
  /\ UNCHANGED <<stock, stockFile, faulty, lockOwner, lockCount, op,
                 pre, tmp, todo, cont, q0, okSum, excel, audit, lastSync,
                 nOps>>

(* ------------------- ExcelService monitor loop ------------------------- *)
MaxTime == 3

\* everything of the ledger but the program counters
ledgerData == <<stock, stockFile, faulty, lockOwner, lockCount, op, ret, pre,
                tmp, todo, cont, q0, okSum>>

\* the threads that run _monitor_loop, and those that run fulfill_delivery
Watchers == {1}
Writers == {2}

\* the product the watched file is about, and what an operator saves
WatchProducts == {"A"}
WatchLedgers ==
  {s \in Ledgers : DOMAIN s \subseteq WatchProducts
                   /\ \A p \in DOMAIN s : s[p] <= MaxCell}
EditFiles ==
  {MissingFile, NoColumnsFile}
  \cup {ValidFile(RowsOf(d, DOMAIN d)) :
          d \in [WatchProducts -> {IntCell(0), IntCell(MaxCell)}]}

\* cur: current_mtime of this tick (0: not read); prev: current_mtime of
\* the tick before; rec: self.last_modified_time as line 205 read it;
\* seeded: the loop has read a timestamp; first: this tick's read is the
\* loop's first; calls: reconciliations this tick has invoked
NoMon ==
  [cur |-> 0, prev |-> 0, rec |-> 0, seeded |-> FALSE, first |-> FALSE,
   calls |-> 0]

\* start_monitoring: nothing when already active, else the flag is set
\* and a new thread, one of W that is not running yet, starts running
\* _monitor_loop
StartMonitoringOn(W) ==
  /\ IF monitoring_active
       THEN UNCHANGED <<monitoring_active, pc, mon>>
       ELSE \E t \in W :
              /\ pc[t] = "idle"
              /\ monitoring_active' = TRUE
              /\ pc' = [pc EXCEPT ![t] = "mon_while"]
              /\ mon' = [mon EXCEPT ![t] = NoMon]
  /\ UNCHANGED <<ledgerData, syncVars, mtime, last_modified_time, selfTimes>>

StartMonitoring == StartMonitoringOn(Watchers)

\* stop_monitoring
StopMonitoring ==
  /\ monitoring_active' = FALSE
  /\ UNCHANGED <<ledgerData, pc, syncVars, mtime, last_modified_time, mon,
                 selfTimes>>

MonWhileDeaf(t) ==
  /\ pc[t] = "mon_while"
  /\ pc' = [pc EXCEPT ![t] = "mon_stat"]
  /\ UNCHANGED <<ledgerData, syncVars, mtime, last_modified_time,
                 monitoring_active, mon, selfTimes>>

\* while self.monitoring_active:
MonWhile(t) ==
  /\ pc[t] = "mon_while"
  /\ IF monitoring_active
       THEN /\ pc' = [pc EXCEPT ![t] = "mon_stat"]
            /\ UNCHANGED mon
       ELSE /\ pc' = [pc EXCEPT ![t] = "idle"]
            /\ mon' = [mon EXCEPT ![t] = NoMon]
  /\ UNCHANGED <<ledgerData, syncVars, mtime, last_modified_time,
                 monitoring_active, selfTimes>>

MonStatBlind(t) ==
  /\ pc[t] = "mon_stat"
  /\ mon' = [mon EXCEPT ![t] =
                [cur |-> IF excel.kind # "missing" THEN mtime ELSE 0,
                 prev |-> mon[t].cur, rec |-> 0, seeded |-> TRUE,
                 first |-> ~mon[t].seeded, calls |-> 0]]
  /\ pc' = [pc EXCEPT ![t] = "mon_compare"]
  /\ UNCHANGED <<ledgerData, syncVars, mtime, last_modified_time,
                 monitoring_active, selfTimes>>

\* if os.path.exists(...): current_mtime = os.path.getmtime(...)
MonStat(t) ==
  /\ pc[t] = "mon_stat"
  /\ IF excel.kind # "missing"
       THEN /\ mon' = [mon EXCEPT ![t] =
                         [cur |-> mtime, prev |-> mon[t].cur, rec |-> 0,
                          seeded |-> TRUE, first |-> ~mon[t].seeded,
                          calls |-> 0]]
            /\ pc' = [pc EXCEPT ![t] = "mon_compare"]
       ELSE /\ mon' = [mon EXCEPT ![t] =
                         [@ EXCEPT !.cur = 0, !.prev = mon[t].cur, !.rec = 0,
                                   !.first = FALSE, !.calls = 0]]
            /\ pc' = [pc EXCEPT ![t] = "mon_sleep"]
  /\ UNCHANGED <<ledgerData, syncVars, mtime, last_modified_time,
                 monitoring_active, selfTimes>>

\* if current_mtime != self.last_modified_time:
MonCompare(t) ==
  /\ pc[t] = "mon_compare"
  /\ mon' = [mon EXCEPT ![t].rec = last_modified_time]
  /\ pc' = [pc EXCEPT ![t] = IF mon[t].cur # last_modified_time
                               THEN "mon_first" ELSE "mon_sleep"]
  /\ UNCHANGED <<ledgerData, syncVars, mtime, last_modified_time,
                 monitoring_active, selfTimes>>

\* if self.last_modified_time > 0: ... self.sync_from_excel()
MonFirst(t) ==
  /\ pc[t] = "mon_first"
  /\ IF last_modified_time > 0
       THEN /\ Invoke(t, "monitor")
            /\ pc' = [pc EXCEPT ![t] = "sy_read"]
            /\ mon' = [mon EXCEPT ![t].calls = @ + 1]
       ELSE /\ pc' = [pc EXCEPT ![t] = "mon_record"]
            /\ UNCHANGED <<nOps, opPre, result, sy, mon>>
  /\ UNCHANGED <<ledgerData, excel, audit, lastSync, mtime,
                 last_modified_time, monitoring_active, selfTimes>>

\* sync_from_excel has returned, or raised into `except Exception`, which
\* skips the assignment of line 212
MonAfterSync(t) ==
  /\ pc[t] = "returned"
  /\ result[t].op = "monitor"
  /\ pc' = [pc EXCEPT ![t] = IF result[t].raised THEN "mon_sleep"
                                                ELSE "mon_record"]
  /\ sy' = [sy EXCEPT ![t] = NoSy]
  /\ opPre' = [opPre EXCEPT ![t] = NoOpPre]
  /\ result' = [result EXCEPT ![t] = NoResult]
  /\ ret' = [ret EXCEPT ![t] = NoRet]
  /\ UNCHANGED <<stock, stockFile, faulty, lockOwner, lockCount, op, pre,
                 tmp, todo, cont, q0, okSum, excel, audit, lastSync, nOps,
                 watchVars>>

\* self.last_modified_time = current_mtime
MonRecord(t) ==
  /\ pc[t] = "mon_record"
  /\ last_modified_time' = mon[t].cur
  /\ pc' = [pc EXCEPT ![t] = "mon_sleep"]
  /\ UNCHANGED <<ledgerData, syncVars, mtime, monitoring_active, mon,
                 selfTimes>>

\* time.sleep(...)
MonSleep(t) ==
  /\ pc[t] = "mon_sleep"
  /\ pc' = [pc EXCEPT ![t] = "mon_while"]
  /\ UNCHANGED <<ledgerData, syncVars, watchVars>>

\* an operator saves, replaces or deletes the file
ExternalEdit ==
  /\ mtime < MaxTime
  /\ excel' \in EditFiles
  /\ mtime' = mtime + 1
  /\ UNCHANGED <<ledgerData, pc, audit, sy, opPre, result, lastSync, nOps,
                 last_modified_time, monitoring_active, mon, selfTimes>>

\* fulfill_delivery, every item deducted: current_stock = get_all()
WsStart(t) ==
  /\ pc[t] = "idle"
  /\ EnterCall(t, GetAllCall, "ws_write")
  /\ UNCHANGED <<okSum, syncVars, watchVars>>

\* the sheet write_stock builds from stock_data
SheetOf(stock_data) ==
  ValidFile(RowsOf([p \in DOMAIN stock_data |-> IntCell(stock_data[p])],
                   DOMAIN stock_data))

\* write_stock: df.to_excel(...); a failure returns False
WsWrite(t) ==
  /\ pc[t] = "ws_write"
  /\ \/ /\ mtime < MaxTime
        /\ excel' = SheetOf(ret[t].snap)
        /\ mtime' = mtime + 1
        /\ selfTimes' = selfTimes \cup {mtime + 1}
        /\ pc' = [pc EXCEPT ![t] = "ws_stamp"]
        /\ UNCHANGED ret
     \/ /\ faulty
        /\ pc' = [pc EXCEPT ![t] = "idle"]
        /\ ret' = [ret EXCEPT ![t] = NoRet]
        /\ UNCHANGED <<excel, mtime, selfTimes>>
  /\ UNCHANGED <<stock, stockFile, faulty, lockOwner, lockCount, op, pre,
                 tmp, todo, cont, q0, okSum, audit, sy, opPre, result,
                 lastSync, nOps, last_modified_time, monitoring_active, mon>>

\* write_stock: self.last_modified_time = os.path.getmtime(...), which
\* raises into `except Exception` when the file is gone
WsStamp(t) ==
  /\ pc[t] = "ws_stamp"
  /\ last_modified_time' = IF excel.kind # "missing" THEN mtime
                                                     ELSE last_modified_time
  /\ pc' = [pc EXCEPT ![t] = "idle"]
  /\ ret' = [ret EXCEPT ![t] = NoRet]
  /\ UNCHANGED <<stock, stockFile, faulty, lockOwner, lockCount, op, pre,
                 tmp, todo, cont, q0, okSum, syncVars, mtime,
                 monitoring_active, mon, selfTimes>>

\* the threads a start_monitoring may create over a run
Loopers == {1, 2}

\* a caller hands two snapshots to track_changes
TrackCall(t) ==
  /\ pc[t] = "idle"
  /\ result[t].op = "none"
  /\ Returned(t, [NoResult EXCEPT !.op = "track_changes", !.success = TRUE,
                     !.changes = TrackChanges(sy[t].old, sy[t].new)])
  /\ UNCHANGED <<ledgerData, excel, audit, sy, opPre, lastSync, nOps,
                 watchVars>>

(* -------------------------- fulfill_delivery --------------------------- *)
MaxItems == 2

\* one piece of order.split(','): "product: quantity", a piece without a
\* colon, or a piece with two colons
Item(p, c) == [kind |-> "item", product |-> p, cell |-> c]
NoColon == [kind |-> "nocolon", product |-> "A", cell |-> TextCell]
TwoColons == [kind |-> "colons", product |-> "A", cell |-> TextCell]
\* the quantities as an order writes them: "1", "-1", "1.5", "many"
OrderCells == {IntCell(1), IntCell(0 - 1), FracCell(1), TextCell}
Fragments ==
  {Item(p, c) : p \in Products, c \in OrderCells} \cup {NoColon, TwoColons}
Orders ==
  UNION {[1..n -> Fragments] : n \in 1..MaxItems}

\* int(''.join(filter(str.isdigit, qty_str))): only the digits count, so a
\* sign and a decimal point are dropped; no digit at all is a ValueError
OrderQty(c) ==
  CASE c.t = "int" -> [ok |-> TRUE, v |-> IF c.v < 0 THEN 0 - c.v ELSE c.v]
    [] c.t = "frac" -> [ok |-> TRUE, v |-> 10 * c.v + 5]
    [] OTHER -> [ok |-> FALSE, v |-> 0]

\* save_order_to_db: sqlite3.connect is outside its try
SaveOrderOutcomes == IF faulty THEN {"ok", "raise"} ELSE {"ok"}

\* save_order_to_db(...); items = order.split(','); failed_items = []
DelStart(t) ==
  /\ pc[t] = "idle"
  /\ nOps.all < MaxOps
  /\ nOps' = [nOps EXCEPT !.all = @ + 1]
  /\ opPre' = [opPre EXCEPT ![t] =
                 [stock |-> stock, file |-> stockFile, audit |-> audit]]
  /\ result' = [result EXCEPT ![t] =
                  [NoResult EXCEPT !.op = "fulfill_delivery"]]
  /\ \E order \in Orders, o \in SaveOrderOutcomes :
       /\ sy' = [sy EXCEPT ![t] =
                   [NoSy EXCEPT !.order = order, !.items = order]]
       /\ pc' = [pc EXCEPT ![t] = IF o = "raise" THEN "del_raise"
                                                 ELSE "del_loop"]
  /\ lastSync' = NoLastSync
  /\ UNCHANGED <<stock, stockFile, faulty, lockOwner, lockCount, op, ret,
                 pre, tmp, todo, cont, q0, okSum, excel, audit, watchVars>>

\* an exception leaves fulfill_delivery
DelRaise(t) ==
  /\ pc[t] = "del_raise"
  /\ Raised(t)
  /\ UNCHANGED <<stock, stockFile, faulty, lockOwner, lockCount, op, ret,
                 pre, tmp, todo, cont, q0, okSum, excel, audit, sy, opPre,
                 lastSync, nOps, watchVars>>

\* for item in items: a piece without a colon is passed over; the
\* unpacking of a piece with two colons raises outside the try; a quantity
\* without digits is a failed item; else stock_service.deduct(...)
DelItem(t) ==
  /\ pc[t] = "del_loop"
  /\ sy[t].items # <<>>
  /\ LET item == Head(sy[t].items)
         qty_ordered == OrderQty(item.cell)
         rest == [sy[t] EXCEPT !.items = Tail(@)]
     IN CASE item.kind = "nocolon" ->
               /\ sy' = [sy EXCEPT ![t] = rest]
               /\ UNCHANGED ledgerVars
          [] item.kind = "colons" ->
               /\ sy' = [sy EXCEPT ![t] = rest]
               /\ pc' = [pc EXCEPT ![t] = "del_raise"]
               /\ UNCHANGED <<stock, stockFile, faulty, lockOwner,
                              lockCount, op, ret, pre, tmp, todo, cont, q0>>
          [] item.kind = "item" /\ ~qty_ordered.ok ->
               /\ sy' = [sy EXCEPT ![t] =
                           [rest EXCEPT !.failed_items =
                                          Append(@, item.product)]]
               /\ UNCHANGED ledgerVars
          [] item.kind = "item" /\ qty_ordered.ok ->
               /\ EnterCall(t, DeductCall(item.product, qty_ordered.v),
                            "del_deducted")
               /\ sy' = [sy EXCEPT ![t] =
                           [rest EXCEPT !.cur = item.product,
                                        !.qty = qty_ordered.v]]
  /\ UNCHANGED <<okSum, excel, audit, opPre, result, lastSync, nOps,
                 watchVars>>

\* if not success: failed_items.append(...)
\* else: new_qty = stock_service.get(prod_name)
DelDeducted(t) ==
  /\ pc[t] = "del_deducted"
  /\ IF ret[t].ok
       THEN /\ EnterCall(t, GetCall(sy[t].cur), "del_log")
            /\ sy' = [sy EXCEPT ![t] =
                        [@ EXCEPT !.deducted =
                                    Append(@, <<sy[t].cur, sy[t].qty>>)]]
       ELSE /\ sy' = [sy EXCEPT ![t] =
                        [@ EXCEPT !.failed_items = Append(@, sy[t].cur)]]
            /\ pc' = [pc EXCEPT ![t] = "del_loop"]
            /\ ret' = [ret EXCEPT ![t] = NoRet]
            /\ UNCHANGED <<stock, stockFile, faulty, lockOwner, lockCount,
                           op, pre, tmp, todo, cont, q0>>
  /\ UNCHANGED <<okSum, excel, audit, opPre, result, lastSync, nOps,
                 watchVars>>

\* log_stock_change(prod_name, -qty_ordered, new_qty, 'order_fulfillment')
DelLog(t) ==
  /\ pc[t] = "del_log"
  /\ \E o \in LogOutcomes :
       /\ LogStockChange(o, AuditEntry(sy[t].cur, 0 - sy[t].qty, ret[t].val,
                                       "order_fulfillment"))
       /\ pc' = [pc EXCEPT ![t] = IF o = "raise" THEN "del_raise"
                                                 ELSE "del_loop"]
  /\ ret' = [ret EXCEPT ![t] = NoRet]
  /\ UNCHANGED <<stock, stockFile, faulty, lockOwner, lockCount, op, pre,
                 tmp, todo, cont, q0, okSum, excel, sy, opPre, result,
                 lastSync, nOps, watchVars>>

\* if failed_items: return False, ...
\* current_stock = stock_service.get_all()
DelCheck(t) ==
  /\ pc[t] = "del_loop"
  /\ sy[t].items = <<>>
  /\ IF sy[t].failed_items # <<>>
       THEN /\ Returned(t, [result[t] EXCEPT !.success = FALSE,
                              !.message = "Fulfillment failed"])
            /\ UNCHANGED <<stock, stockFile, faulty, lockOwner, lockCount,
                           op, ret, pre, tmp, todo, cont, q0>>
       ELSE /\ EnterCall(t, GetAllCall, "del_write")
            /\ UNCHANGED result
  /\ UNCHANGED <<okSum, excel, audit, sy, opPre, lastSync, nOps, watchVars>>

\* excel_service.write_stock(current_stock): df.to_excel(...); a failure
\* returns False, which is logged as a warning
DelWrite(t) ==
  /\ pc[t] = "del_write"
  /\ \/ /\ mtime < MaxTime
        /\ excel' = SheetOf(ret[t].snap)
        /\ mtime' = mtime + 1
        /\ selfTimes' = selfTimes \cup {mtime + 1}
        /\ sy' = [sy EXCEPT ![t].wrote = TRUE]
     \/ /\ faulty
        /\ UNCHANGED <<excel, mtime, selfTimes, sy>>
  /\ pc' = [pc EXCEPT ![t] = "del_stamp"]
  /\ UNCHANGED <<stock, stockFile, faulty, lockOwner, lockCount, op, ret,
                 pre, tmp, todo, cont, q0, okSum, audit, opPre, result,
                 lastSync, nOps, last_modified_time, monitoring_active, mon>>

\* write_stock: self.last_modified_time = os.path.getmtime(...);
\* return True, f"Order Fulfilled: {order}"
DelReturn(t) ==
  /\ pc[t] = "del_stamp"
  /\ last_modified_time' = IF sy[t].wrote /\ excel.kind # "missing"
                             THEN mtime ELSE last_modified_time
  /\ Returned(t, [result[t] EXCEPT !.success = TRUE,
                    !.message = "Order Fulfilled"])
  /\ UNCHANGED <<stock, stockFile, faulty, lockOwner, lockCount, op, ret,
                 pre, tmp, todo, cont, q0, okSum, excel, audit, sy, opPre,
                 lastSync, nOps, mtime, monitoring_active, mon, selfTimes>>

(* ------------------- app.py: the module-level ledger ------------------- *)
\* In these actions stock is current_stock, stockFile is stock.json, and
\* lockOwner and lockCount are stock_lock, a threading.Lock: it is not
\* reentrant, whoever holds it.
AppCanAcquire(t) == lockOwner = NoThread

AppCalls ==
  {UpdateCall(p, q) : p \in WatchProducts, q \in 0..MaxCell}
  \cup {DeductCall(p, d) : p \in WatchProducts, d \in 1..MaxQty}
  \cup {CheckAvailabilityCall(p, n) : p \in WatchProducts, n \in 1..MaxQty}
  \cup {[NoOp EXCEPT !.name = "save_stock"]}

\* a caller calls update_stock_item, deduct_stock, check_stock_availability
\* or save_stock and reaches the function's `with stock_lock:`
AppCall(t) ==
  /\ pc[t] = "idle"
  /\ \E c \in AppCalls :
       /\ op' = [op EXCEPT ![t] = c]
       /\ pc' = [pc EXCEPT ![t] = IF c.name = "save_stock"
                                    THEN "app_save_lock" ELSE "app_lock"]
  /\ ret' = [ret EXCEPT ![t] = NoRet]
  /\ cont' = [cont EXCEPT ![t] = "idle"]
  /\ UNCHANGED <<stock, stockFile, faulty, lockOwner, lockCount, pre, tmp,
                 todo, q0>>

\* `with stock_lock:` of update_stock_item, deduct_stock and
\* check_stock_availability
AppAcquire(t) ==
  /\ pc[t] = "app_lock"
  /\ AppCanAcquire(t)
  /\ lockOwner' = t
  /\ lockCount' = 1
  /\ pre' = [pre EXCEPT ![t] = [stock |-> stock, file |-> stockFile]]
  /\ pc' = [pc EXCEPT ![t] = "app_" \o op[t].name]
  /\ UNCHANGED <<stock, stockFile, faulty, op, ret, tmp, todo, cont, q0>>

\* update_stock_item: current_stock[product] = quantity; save_stock()
AppUpdate(t) ==
  /\ pc[t] = "app_update"
  /\ stock' = DictSet(stock, op[t].p, op[t].q)
  /\ pc' = [pc EXCEPT ![t] = "app_save_lock"]
  /\ cont' = [cont EXCEPT ![t] = "app_return"]
  /\ ret' = [ret EXCEPT ![t] = [NoRet EXCEPT !.ok = TRUE, !.msg = "ok"]]
  /\ UNCHANGED <<stockFile, faulty, lockOwner, lockCount, op, pre, tmp,
                 todo, q0>>

\* deduct_stock: the two early returns; current_stock[product] -=
\* quantity; save_stock()
AppDeduct(t) ==
  /\ pc[t] = "app_deduct"
  /\ IF NotFound(stock, op[t].p)
       THEN /\ ret' = [ret EXCEPT ![t] = [NoRet EXCEPT !.msg = "not_found"]]
            /\ pc' = [pc EXCEPT ![t] = "app_return"]
            /\ UNCHANGED <<stock, cont>>
       ELSE IF Insufficient(stock, op[t].p, op[t].q)
         THEN /\ ret' = [ret EXCEPT ![t] =
                           [NoRet EXCEPT !.msg = "insufficient"]]
              /\ pc' = [pc EXCEPT ![t] = "app_return"]
              /\ UNCHANGED <<stock, cont>>
         ELSE /\ stock' = DictSet(stock, op[t].p, stock[op[t].p] - op[t].q)
              /\ pc' = [pc EXCEPT ![t] = "app_save_lock"]
              /\ cont' = [cont EXCEPT ![t] = "app_return"]
              /\ ret' = [ret EXCEPT ![t] =
                           [NoRet EXCEPT !.ok = TRUE, !.msg = "ok"]]
  /\ UNCHANGED <<stockFile, faulty, lockOwner, lockCount, op, pre, tmp,
                 todo, q0>>

\* check_stock_availability
AppCheck(t) ==
  /\ pc[t] = "app_check_availability"
  /\ LET available == DictGet(stock, op[t].p, 0)
     IN ret' = [ret EXCEPT ![t] =
                  [NoRet EXCEPT !.ok = available >= op[t].q,
                                !.val = available, !.msg = "ok"]]
  /\ pc' = [pc EXCEPT ![t] = "app_return"]
  /\ UNCHANGED <<stock, stockFile, faulty, lockOwner, lockCount, op, pre,
                 tmp, todo, cont, q0>>

\* `with stock_lock:` of save_stock
AppSaveAcquire(t) ==
  /\ pc[t] = "app_save_lock"
  /\ AppCanAcquire(t)
  /\ lockOwner' = t
  /\ lockCount' = lockCount + 1
  /\ pc' = [pc EXCEPT ![t] = "app_save_io"]
  /\ UNCHANGED <<stock, stockFile, faulty, op, ret, pre, tmp, todo, cont,
                 q0>>

\* save_stock: json.dump, an error is logged and swallowed; the end of its
\* `with stock_lock:`
AppSaveWrite(t) ==
  /\ pc[t] = "app_save_io"
  /\ \/ stockFile' = stock
     \/ faulty /\ UNCHANGED stockFile
  /\ lockCount' = lockCount - 1
  /\ lockOwner' = IF lockCount - 1 <= 0 THEN NoThread ELSE lockOwner
  /\ pc' = [pc EXCEPT ![t] = cont[t]]
  /\ cont' = [cont EXCEPT ![t] = "idle"]
  /\ UNCHANGED <<stock, faulty, op, ret, pre, tmp, todo, q0>>

\* the end of the caller's `with stock_lock:`; the value is returned
AppReturn(t) ==
  /\ pc[t] = "app_return"
  /\ lockCount' = lockCount - 1
  /\ lockOwner' = IF lockCount - 1 <= 0 THEN NoThread ELSE lockOwner
  /\ pc' = [pc EXCEPT ![t] = "idle"]
  /\ pre' = [pre EXCEPT ![t] = NoPre]
  /\ UNCHANGED <<stock, stockFile, faulty, op, ret, tmp, todo, cont, q0>>

(* --------------------------- specifications ---------------------------- *)
\* StockService.__init__ has loaded the ledger from its file; no call is
\* in progress
InitLedger ==
  /\ stock \in Ledgers
  /\ stockFile = stock
  /\ faulty \in BOOLEAN
  /\ lockOwner = NoThread
  /\ lockCount = 0
  /\ pc = [t \in Threads |-> "idle"]
  /\ op = [t \in Threads |-> NoOp]
  /\ ret = [t \in Threads |-> NoRet]
  /\ pre = [t \in Threads |-> NoPre]
  /\ tmp = [t \in Threads |-> 0]
  /\ todo = [t \in Threads |-> {}]
  /\ cont = [t \in Threads |-> "idle"]
  /\ okSum = [p \in Products |-> 0]

\* no external file yet, an empty audit log, no reconciliation in progress
InitNoSync ==
  /\ excel = MissingFile
  /\ audit = <<>>
  /\ sy = [t \in Threads |-> NoSy]
  /\ opPre = [t \in Threads |-> NoOpPre]
  /\ result = [t \in Threads |-> NoResult]
  /\ lastSync = NoLastSync
  /\ nOps = [all |-> 0, api |-> 0]

\* ExcelService.__init__: nothing recorded, no monitor loop
InitNoWatch ==
  /\ mtime = 1
  /\ last_modified_time = 0
  /\ monitoring_active = FALSE
  /\ mon = [t \in Threads |-> NoMon]
  /\ selfTimes = {}

Init ==
  /\ InitLedger
  /\ q0 = EmptyMap
  /\ InitNoSync
  /\ InitNoWatch

InitDeduct ==
  /\ InitLedger
  /\ q0 = stock
  /\ InitNoSync
  /\ InitNoWatch

\* request handlers calling the ledger concurrently
Next ==
  \E t \in Threads :
    \/ Call(t) /\ UNCHANGED <<okSum, syncVars, watchVars>>
    \/ GetAll(t) /\ UNCHANGED <<okSum, syncVars, watchVars>>
    \/ Get(t) /\ UNCHANGED <<okSum, syncVars, watchVars>>
    \/ CheckAvailability(t) /\ UNCHANGED <<okSum, syncVars, watchVars>>
    \/ Update(t) /\ UNCHANGED <<okSum, syncVars, watchVars>>
    \/ UpdateBulk(t) /\ UNCHANGED <<okSum, syncVars, watchVars>>
    \/ DeductCheck(t) /\ UNCHANGED <<okSum, syncVars, watchVars>>
    \/ DeductLoad(t) /\ UNCHANGED <<okSum, syncVars, watchVars>>
    \/ DeductStore(t) /\ UNCHANGED <<okSum, syncVars, watchVars>>
    \/ AddLoad(t) /\ UNCHANGED <<okSum, syncVars, watchVars>>
    \/ AddStore(t) /\ UNCHANGED <<okSum, syncVars, watchVars>>
    \/ SaveEnter(t) /\ UNCHANGED <<okSum, syncVars, watchVars>>
    \/ SaveWrite(t) /\ UNCHANGED <<okSum, syncVars, watchVars>>
    \/ Exit(t) /\ UNCHANGED <<okSum, syncVars, watchVars>>

Spec == Init /\ [][Next]_vars

\* request handlers that only deduct positive amounts
NextDeduct ==
  \E t \in Threads :
    \/ CallDeduct(t) /\ UNCHANGED <<okSum, syncVars, watchVars>>
    \/ DeductCheck(t) /\ UNCHANGED <<okSum, syncVars, watchVars>>
    \/ DeductLoad(t) /\ UNCHANGED <<okSum, syncVars, watchVars>>
    \/ DeductStore(t) /\ UNCHANGED <<okSum, syncVars, watchVars>>
    \/ SaveEnter(t) /\ UNCHANGED <<okSum, syncVars, watchVars>>
    \/ SaveWrite(t) /\ UNCHANGED <<okSum, syncVars, watchVars>>
    \/ ExitDeduct(t) /\ UNCHANGED <<syncVars, watchVars>>

SpecDeduct == InitDeduct /\ [][NextDeduct]_vars

\* one caller reconciling from the file and from the API, MaxOps times in
\* all and MaxApis times from the API
Reconcilers == {1}

InitSync ==
  /\ InitLedger
  /\ \A p \in DOMAIN stock : stock[p] <= MaxCell
  /\ q0 = EmptyMap
  /\ excel \in ExcelFiles
  /\ audit = <<>>
  /\ sy = [t \in Threads |-> NoSy]
  /\ opPre = [t \in Threads |-> NoOpPre]
  /\ result = [t \in Threads |-> NoResult]
  /\ lastSync = NoLastSync
  /\ nOps = [all |-> 0, api |-> 0]
  /\ InitNoWatch

NextSync ==
  \/ \E t \in Reconcilers :
       \/ SyncStart(t) /\ UNCHANGED watchVars
       \/ SyncRead(t) /\ UNCHANGED watchVars
       \/ SyncGetAll(t) /\ UNCHANGED watchVars
       \/ SyncTrack(t) /\ UNCHANGED watchVars
       \/ SyncBulk(t) /\ UNCHANGED watchVars
       \/ SyncLog(t) /\ UNCHANGED watchVars
       \/ SyncReturn(t) /\ UNCHANGED watchVars
       \/ ApiStart(t) /\ UNCHANGED watchVars
       \/ ApiRequest(t) /\ UNCHANGED watchVars
       \/ ApiItem(t) /\ UNCHANGED watchVars
       \/ ApiUpdate(t) /\ UNCHANGED watchVars
       \/ ApiLog(t) /\ UNCHANGED watchVars
       \/ ApiReturn(t) /\ UNCHANGED watchVars
       \/ Finish(t) /\ UNCHANGED watchVars
       \/ GetAll(t) /\ UNCHANGED <<okSum, syncVars, watchVars>>
       \/ Get(t) /\ UNCHANGED <<okSum, syncVars, watchVars>>
       \/ Update(t) /\ UNCHANGED <<okSum, syncVars, watchVars>>
       \/ UpdateBulk(t) /\ UNCHANGED <<okSum, syncVars, watchVars>>
       \/ SaveEnter(t) /\ UNCHANGED <<okSum, syncVars, watchVars>>
       \/ SaveWrite(t) /\ UNCHANGED <<okSum, syncVars, watchVars>>
       \/ Exit(t) /\ UNCHANGED <<okSum, syncVars, watchVars>>

SpecSync == InitSync /\ [][NextSync]_vars

\* a monitor loop that is started and stopped, and an operator editing
\* the file
InitWatch ==
  /\ InitLedger
  /\ stock \in WatchLedgers
  /\ q0 = EmptyMap
  /\ excel \in EditFiles
  /\ audit = <<>>
  /\ sy = [t \in Threads |-> NoSy]
  /\ opPre = [t \in Threads |-> NoOpPre]
  /\ result = [t \in Threads |-> NoResult]
  /\ lastSync = NoLastSync
  /\ nOps = [all |-> 0, api |-> 0]
  /\ InitNoWatch

NextWatch ==
  \/ StartMonitoring
  \/ StopMonitoring
  \/ ExternalEdit
  \/ \E t \in Watchers :
       \/ MonWhile(t)
       \/ MonStat(t)
       \/ MonCompare(t)
       \/ MonFirst(t)
       \/ MonAfterSync(t)
       \/ MonRecord(t)
       \/ MonSleep(t)
       \/ SyncRead(t) /\ UNCHANGED watchVars
       \/ SyncGetAll(t) /\ UNCHANGED watchVars
       \/ SyncTrack(t) /\ UNCHANGED watchVars
       \/ SyncBulk(t) /\ UNCHANGED watchVars
       \/ SyncLog(t) /\ UNCHANGED watchVars
       \/ SyncReturn(t) /\ UNCHANGED watchVars
       \/ GetAll(t) /\ UNCHANGED <<okSum, syncVars, watchVars>>
       \/ UpdateBulk(t) /\ UNCHANGED <<okSum, syncVars, watchVars>>
       \/ SaveEnter(t) /\ UNCHANGED <<okSum, syncVars, watchVars>>
       \/ SaveWrite(t) /\ UNCHANGED <<okSum, syncVars, watchVars>>
       \/ Exit(t) /\ UNCHANGED <<okSum, syncVars, watchVars>>

SpecWatch == InitWatch /\ [][NextWatch]_vars

\* the same, with fulfilled orders writing the ledger to the file
NextWatchWrite ==
  \/ StartMonitoring
  \/ StopMonitoring
  \/ ExternalEdit
  \/ \E t \in Watchers :
       \/ MonWhile(t)
       \/ MonStat(t)
       \/ MonCompare(t)
       \/ MonFirst(t)
       \/ MonAfterSync(t)
       \/ MonRecord(t)
       \/ MonSleep(t)
       \/ SyncRead(t) /\ UNCHANGED watchVars
       \/ SyncGetAll(t) /\ UNCHANGED watchVars
       \/ SyncTrack(t) /\ UNCHANGED watchVars
       \/ SyncBulk(t) /\ UNCHANGED watchVars
       \/ SyncLog(t) /\ UNCHANGED watchVars
       \/ SyncReturn(t) /\ UNCHANGED watchVars
       \/ UpdateBulk(t) /\ UNCHANGED <<okSum, syncVars, watchVars>>
       \/ SaveEnter(t) /\ UNCHANGED <<okSum, syncVars, watchVars>>
       \/ SaveWrite(t) /\ UNCHANGED <<okSum, syncVars, watchVars>>
  \/ \E t \in Writers :
       \/ WsStart(t)
       \/ WsWrite(t)
       \/ WsStamp(t)
  \/ \E t \in Watchers \cup Writers :
       \/ GetAll(t) /\ UNCHANGED <<okSum, syncVars, watchVars>>
       \/ Exit(t) /\ UNCHANGED <<okSum, syncVars, watchVars>>

SpecWatchWrite == InitWatch /\ [][NextWatchWrite]_vars


\* track_changes on any two snapshots
TrackCallers == {1}

InitTrack ==
  /\ InitLedger
  /\ stock = EmptyMap
  /\ faulty = FALSE
  /\ q0 = EmptyMap
  /\ excel = MissingFile
  /\ audit = <<>>
  /\ \E old_stock \in Ledgers, new_stock \in Ledgers :
       sy = [t \in Threads |->
               IF t \in TrackCallers
                 THEN [NoSy EXCEPT !.old = old_stock, !.new = new_stock]
                 ELSE NoSy]
  /\ opPre = [t \in Threads |-> NoOpPre]
  /\ result = [t \in Threads |-> NoResult]
  /\ lastSync = NoLastSync
  /\ nOps = [all |-> 0, api |-> 0]
  /\ InitNoWatch

NextTrack == \E t \in TrackCallers : TrackCall(t)

SpecTrack == InitTrack /\ [][NextTrack]_vars

\* request handlers calling a ledger that was constructed on a path
\* holding an earlier run's file or nothing, and restarts of the process
InitLoad ==
  /\ stockFile \in Ledgers \cup {NoStockFile}
  /\ stock = Load(stockFile)
  /\ faulty \in BOOLEAN
  /\ lockOwner = NoThread
  /\ lockCount = 0
  /\ pc = [t \in Threads |-> "idle"]
  /\ op = [t \in Threads |-> NoOp]
  /\ ret = [t \in Threads |-> NoRet]
  /\ pre = [t \in Threads |-> NoPre]
  /\ tmp = [t \in Threads |-> 0]
  /\ todo = [t \in Threads |-> {}]
  /\ cont = [t \in Threads |-> "idle"]
  /\ okSum = [p \in Products |-> 0]
  /\ q0 = stock
  /\ InitNoSync
  /\ InitNoWatch

NextLoad ==
  \/ Construct /\ UNCHANGED <<okSum, syncVars, watchVars>>
  \/ \E t \in Threads :
       \/ Call(t) /\ UNCHANGED <<okSum, syncVars, watchVars>>
       \/ GetAll(t) /\ UNCHANGED <<okSum, syncVars, watchVars>>
       \/ Get(t) /\ UNCHANGED <<okSum, syncVars, watchVars>>
       \/ CheckAvailability(t) /\ UNCHANGED <<okSum, syncVars, watchVars>>
       \/ Update(t) /\ UNCHANGED <<okSum, syncVars, watchVars>>
       \/ UpdateBulk(t) /\ UNCHANGED <<okSum, syncVars, watchVars>>
       \/ DeductCheck(t) /\ UNCHANGED <<okSum, syncVars, watchVars>>
       \/ DeductLoad(t) /\ UNCHANGED <<okSum, syncVars, watchVars>>
       \/ DeductStore(t) /\ UNCHANGED <<okSum, syncVars, watchVars>>
       \/ AddLoad(t) /\ UNCHANGED <<okSum, syncVars, watchVars>>
       \/ AddStore(t) /\ UNCHANGED <<okSum, syncVars, watchVars>>
       \/ SaveEnter(t) /\ UNCHANGED <<okSum, syncVars, watchVars>>
       \/ SaveWrite(t) /\ UNCHANGED <<okSum, syncVars, watchVars>>
       \/ Exit(t) /\ UNCHANGED <<okSum, syncVars, watchVars>>

SpecLoad == InitLoad /\ [][NextLoad]_vars

\* one caller keeping and editing the maps get_all returns while another
\* calls the ledger
Holders == {1}

NextSnapshot ==
  \/ \E t \in Holders :
       \/ HoldCall(t) /\ UNCHANGED <<okSum, syncVars, watchVars>>
       \/ HolderEdit(t) /\ UNCHANGED <<okSum, syncVars, watchVars>>
       \/ HolderDrop(t) /\ UNCHANGED <<okSum, syncVars, watchVars>>
  \/ \E t \in Threads \ Holders :
       \/ Call(t) /\ UNCHANGED <<okSum, syncVars, watchVars>>
       \/ Get(t) /\ UNCHANGED <<okSum, syncVars, watchVars>>
       \/ CheckAvailability(t) /\ UNCHANGED <<okSum, syncVars, watchVars>>
       \/ Update(t) /\ UNCHANGED <<okSum, syncVars, watchVars>>
       \/ UpdateBulk(t) /\ UNCHANGED <<okSum, syncVars, watchVars>>
       \/ DeductCheck(t) /\ UNCHANGED <<okSum, syncVars, watchVars>>
       \/ DeductLoad(t) /\ UNCHANGED <<okSum, syncVars, watchVars>>
       \/ DeductStore(t) /\ UNCHANGED <<okSum, syncVars, watchVars>>
       \/ AddLoad(t) /\ UNCHANGED <<okSum, syncVars, watchVars>>
       \/ AddStore(t) /\ UNCHANGED <<okSum, syncVars, watchVars>>
       \/ SaveEnter(t) /\ UNCHANGED <<okSum, syncVars, watchVars>>
       \/ SaveWrite(t) /\ UNCHANGED <<okSum, syncVars, watchVars>>
  \/ \E t \in Threads :
       \/ GetAll(t) /\ UNCHANGED <<okSum, syncVars, watchVars>>
       \/ Exit(t) /\ UNCHANGED <<okSum, syncVars, watchVars>>

SpecSnapshot == Init /\ [][NextSnapshot]_vars

\* the monitor loop's thread is scheduled: whatever step of the loop, of
\* the reconciliation it calls or of the ledger methods under it is next,
\* it is taken in the end (the sleeps end, nobody else holds the lock)
LoopStep(t) ==
  \/ MonWhile(t)
  \/ MonStat(t)
  \/ MonCompare(t)
  \/ MonFirst(t)
  \/ MonAfterSync(t)
  \/ MonRecord(t)
  \/ MonSleep(t)
  \/ SyncRead(t) /\ UNCHANGED watchVars
  \/ SyncGetAll(t) /\ UNCHANGED watchVars
  \/ SyncTrack(t) /\ UNCHANGED watchVars
  \/ SyncBulk(t) /\ UNCHANGED watchVars
  \/ SyncLog(t) /\ UNCHANGED watchVars
  \/ SyncReturn(t) /\ UNCHANGED watchVars
  \/ GetAll(t) /\ UNCHANGED <<okSum, syncVars, watchVars>>
  \/ UpdateBulk(t) /\ UNCHANGED <<okSum, syncVars, watchVars>>
  \/ SaveEnter(t) /\ UNCHANGED <<okSum, syncVars, watchVars>>
  \/ SaveWrite(t) /\ UNCHANGED <<okSum, syncVars, watchVars>>
  \/ Exit(t) /\ UNCHANGED <<okSum, syncVars, watchVars>>

\* storage that works: every reconciliation returns
InitStop ==
  /\ InitWatch
  /\ ~faulty

SpecStop ==
  /\ InitStop
  /\ [][NextWatch]_vars
  /\ \A t \in Watchers : WF_vars(LoopStep(t))

\* monitoring that is started and stopped any number of times, each start
\* on a thread of its own, and an operator editing the file
InitLoops ==
  /\ InitWatch
  /\ ~faulty
  /\ stock = EmptyMap
  /\ excel.kind = "valid"

NextLoops ==
  \/ StartMonitoringOn(Loopers)
  \/ StopMonitoring
  \/ ExternalEdit
  \/ \E t \in Loopers :
       \/ MonWhile(t)
       \/ MonStat(t)
       \/ MonCompare(t)
       \/ MonFirst(t)
       \/ MonAfterSync(t)
       \/ MonRecord(t)
       \/ MonSleep(t)
       \/ SyncRead(t) /\ UNCHANGED watchVars
       \/ SyncGetAll(t) /\ UNCHANGED watchVars
       \/ SyncTrack(t) /\ UNCHANGED watchVars
       \/ SyncBulk(t) /\ UNCHANGED watchVars
       \/ SyncLog(t) /\ UNCHANGED watchVars
       \/ SyncReturn(t) /\ UNCHANGED watchVars
       \/ GetAll(t) /\ UNCHANGED <<okSum, syncVars, watchVars>>
       \/ UpdateBulk(t) /\ UNCHANGED <<okSum, syncVars, watchVars>>
       \/ SaveEnter(t) /\ UNCHANGED <<okSum, syncVars, watchVars>>
       \/ SaveWrite(t) /\ UNCHANGED <<okSum, syncVars, watchVars>>
       \/ Exit(t) /\ UNCHANGED <<okSum, syncVars, watchVars>>

SpecLoops == InitLoops /\ [][NextLoops]_vars

\* a reconciliation from the file on one thread while a request handler
\* on another deducts from and updates the ledger; storage works
Rivals == {2}

RivalCall(t) ==
  /\ pc[t] = "idle"
  /\ \E c \in {DeductCall(p, d) : p \in WatchProducts, d \in 1..MaxQty}
              \cup {UpdateCall(p, q) : p \in WatchProducts, q \in Qty}
              \cup {GetAllCall} :
       EnterCall(t, c, "idle")

InitRace ==
  /\ InitSync
  /\ ~faulty
  /\ stock \in WatchLedgers
  /\ excel \in EditFiles

NextRace ==
  \/ \E t \in Reconcilers :
       \/ SyncStart(t) /\ UNCHANGED watchVars
       \/ SyncRead(t) /\ UNCHANGED watchVars
       \/ SyncGetAll(t) /\ UNCHANGED watchVars
       \/ SyncTrack(t) /\ UNCHANGED watchVars
       \/ SyncBulk(t) /\ UNCHANGED watchVars
       \/ SyncLog(t) /\ UNCHANGED watchVars
       \/ SyncReturn(t) /\ UNCHANGED watchVars
       \/ Finish(t) /\ UNCHANGED watchVars
       \/ UpdateBulk(t) /\ UNCHANGED <<okSum, syncVars, watchVars>>
  \/ \E t \in Rivals :
       \/ RivalCall(t) /\ UNCHANGED <<okSum, syncVars, watchVars>>
       \/ Update(t) /\ UNCHANGED <<okSum, syncVars, watchVars>>
       \/ DeductCheck(t) /\ UNCHANGED <<okSum, syncVars, watchVars>>
       \/ DeductLoad(t) /\ UNCHANGED <<okSum, syncVars, watchVars>>
       \/ DeductStore(t) /\ UNCHANGED <<okSum, syncVars, watchVars>>
  \/ \E t \in Reconcilers \cup Rivals :
       \/ GetAll(t) /\ UNCHANGED <<okSum, syncVars, watchVars>>
       \/ SaveEnter(t) /\ UNCHANGED <<okSum, syncVars, watchVars>>
       \/ SaveWrite(t) /\ UNCHANGED <<okSum, syncVars, watchVars>>
       \/ Exit(t) /\ UNCHANGED <<okSum, syncVars, watchVars>>

SpecRace == InitRace /\ [][NextRace]_vars

\* an import from the API on one thread while a request handler on
\* another reads and changes the ledger; storage works
InitApiRace ==
  /\ InitSync
  /\ ~faulty
  /\ stock \in WatchLedgers
  /\ excel = MissingFile

NextApiRace ==
  \/ \E t \in Reconcilers :
       \/ ApiStart(t) /\ UNCHANGED watchVars
       \/ ApiRequest(t) /\ UNCHANGED watchVars
       \/ ApiItem(t) /\ UNCHANGED watchVars
       \/ ApiUpdate(t) /\ UNCHANGED watchVars
       \/ ApiLog(t) /\ UNCHANGED watchVars
       \/ ApiReturn(t) /\ UNCHANGED watchVars
       \/ Finish(t) /\ UNCHANGED watchVars
       \/ Get(t) /\ UNCHANGED <<okSum, syncVars, watchVars>>
  \/ \E t \in Rivals :
       \/ RivalCall(t) /\ UNCHANGED <<okSum, syncVars, watchVars>>
       \/ GetAll(t) /\ UNCHANGED <<okSum, syncVars, watchVars>>
       \/ DeductCheck(t) /\ UNCHANGED <<okSum, syncVars, watchVars>>
       \/ DeductLoad(t) /\ UNCHANGED <<okSum, syncVars, watchVars>>
       \/ DeductStore(t) /\ UNCHANGED <<okSum, syncVars, watchVars>>
  \/ \E t \in Reconcilers \cup Rivals :
       \/ Update(t) /\ UNCHANGED <<okSum, syncVars, watchVars>>
       \/ SaveEnter(t) /\ UNCHANGED <<okSum, syncVars, watchVars>>
       \/ SaveWrite(t) /\ UNCHANGED <<okSum, syncVars, watchVars>>
       \/ Exit(t) /\ UNCHANGED <<okSum, syncVars, watchVars>>

SpecApiRace == InitApiRace /\ [][NextApiRace]_vars

\* a fulfil_delivery that has begun to write the file goes on: its steps
\* are taken in the end
WriterStep(t) ==
  \/ WsWrite(t)
  \/ WsStamp(t)
  \/ GetAll(t) /\ UNCHANGED <<okSum, syncVars, watchVars>>
  \/ Exit(t) /\ UNCHANGED <<okSum, syncVars, watchVars>>

\* start_monitoring has just been called on a new ExcelService: the flag
\* is set and the loop's thread is about to read it; storage works
InitApply ==
  /\ stock \in WatchLedgers
  /\ stockFile = stock
  /\ faulty = FALSE
  /\ lockOwner = NoThread
  /\ lockCount = 0
  /\ pc = [t \in Threads |-> IF t \in Watchers THEN "mon_while" ELSE "idle"]
  /\ op = [t \in Threads |-> NoOp]
  /\ ret = [t \in Threads |-> NoRet]
  /\ pre = [t \in Threads |-> NoPre]
  /\ tmp = [t \in Threads |-> 0]
  /\ todo = [t \in Threads |-> {}]
  /\ cont = [t \in Threads |-> "idle"]
  /\ okSum = [p \in Products |-> 0]
  /\ q0 = EmptyMap
  /\ excel \in EditFiles
  /\ audit = <<>>
  /\ sy = [t \in Threads |-> NoSy]
  /\ opPre = [t \in Threads |-> NoOpPre]
  /\ result = [t \in Threads |-> NoResult]
  /\ lastSync = NoLastSync
  /\ nOps = [all |-> 0, api |-> 0]
  /\ mtime = 1
  /\ last_modified_time = 0
  /\ monitoring_active = TRUE
  /\ mon = [t \in Threads |-> NoMon]
  /\ selfTimes = {}

\* the loop keeps running while an operator edits the file and fulfilled
\* orders write the ledger to it
NextApply ==
  \/ ExternalEdit
  \/ \E t \in Watchers :
       \/ MonWhile(t)
       \/ MonStat(t)
       \/ MonCompare(t)
       \/ MonFirst(t)
       \/ MonAfterSync(t)
       \/ MonRecord(t)
       \/ MonSleep(t)
       \/ SyncRead(t) /\ UNCHANGED watchVars
       \/ SyncGetAll(t) /\ UNCHANGED watchVars
       \/ SyncTrack(t) /\ UNCHANGED watchVars
       \/ SyncBulk(t) /\ UNCHANGED watchVars
       \/ SyncLog(t) /\ UNCHANGED watchVars
       \/ SyncReturn(t) /\ UNCHANGED watchVars
       \/ UpdateBulk(t) /\ UNCHANGED <<okSum, syncVars, watchVars>>
       \/ SaveEnter(t) /\ UNCHANGED <<okSum, syncVars, watchVars>>
       \/ SaveWrite(t) /\ UNCHANGED <<okSum, syncVars, watchVars>>
  \/ \E t \in Writers :
       \/ WsStart(t)
       \/ WsWrite(t)
       \/ WsStamp(t)
  \/ \E t \in Watchers \cup Writers :
       \/ GetAll(t) /\ UNCHANGED <<okSum, syncVars, watchVars>>
       \/ Exit(t) /\ UNCHANGED <<okSum, syncVars, watchVars>>

SpecApply ==
  /\ InitApply
  /\ [][NextApply]_vars
  /\ \A t \in Watchers : WF_vars(LoopStep(t))
  /\ \A t \in Writers : WF_vars(WriterStep(t))

\* one caller fulfilling orders, MaxOps of them
Deliverers == {1}

InitDeliver ==
  /\ InitLedger
  /\ \A p \in DOMAIN stock : stock[p] <= MaxCell
  /\ q0 = EmptyMap
  /\ InitNoSync
  /\ InitNoWatch

NextDeliver ==
  \E t \in Deliverers :
    \/ DelStart(t)
    \/ DelRaise(t)
    \/ DelItem(t)
    \/ DelDeducted(t)
    \/ DelLog(t)
    \/ DelCheck(t)
    \/ DelWrite(t)
    \/ DelReturn(t)
    \/ Finish(t) /\ UNCHANGED watchVars
    \/ Get(t) /\ UNCHANGED <<okSum, syncVars, watchVars>>
    \/ GetAll(t) /\ UNCHANGED <<okSum, syncVars, watchVars>>
    \/ DeductCheck(t) /\ UNCHANGED <<okSum, syncVars, watchVars>>
    \/ DeductLoad(t) /\ UNCHANGED <<okSum, syncVars, watchVars>>
    \/ DeductStore(t) /\ UNCHANGED <<okSum, syncVars, watchVars>>
    \/ SaveEnter(t) /\ UNCHANGED <<okSum, syncVars, watchVars>>
    \/ SaveWrite(t) /\ UNCHANGED <<okSum, syncVars, watchVars>>
    \/ Exit(t) /\ UNCHANGED <<okSum, syncVars, watchVars>>

SpecDeliver == InitDeliver /\ [][NextDeliver]_vars

\* threads that block on `with self.lock:` until the lock is theirs
LockCalls(s) ==
  {c \in Calls(s) : /\ c.p \in WatchProducts
                    /\ c.q \in 0..MaxCell
                    /\ c.m \in WatchLedgers}

\* a thread calls a method and reaches its `with self.lock:`
Request(t) ==
  /\ pc[t] = "idle"
  /\ \E c \in LockCalls(stock) : op' = [op EXCEPT ![t] = c]
  /\ pc' = [pc EXCEPT ![t] = "wait"]
  /\ UNCHANGED <<stock, stockFile, faulty, lockOwner, lockCount, ret, pre,
                 tmp, todo, cont, q0>>

\* RLock.acquire() returns: the lock was free
Acquire(t) ==
  /\ pc[t] = "wait"
  /\ EnterCall(t, op[t], "idle")

\* the thread is scheduled inside a method it has entered
BodyStep(t) ==
  \/ GetAll(t) /\ UNCHANGED <<okSum, syncVars, watchVars>>
  \/ Get(t) /\ UNCHANGED <<okSum, syncVars, watchVars>>
  \/ CheckAvailability(t) /\ UNCHANGED <<okSum, syncVars, watchVars>>
  \/ Update(t) /\ UNCHANGED <<okSum, syncVars, watchVars>>
  \/ UpdateBulk(t) /\ UNCHANGED <<okSum, syncVars, watchVars>>
  \/ DeductCheck(t) /\ UNCHANGED <<okSum, syncVars, watchVars>>
  \/ DeductLoad(t) /\ UNCHANGED <<okSum, syncVars, watchVars>>
  \/ DeductStore(t) /\ UNCHANGED <<okSum, syncVars, watchVars>>
  \/ AddLoad(t) /\ UNCHANGED <<okSum, syncVars, watchVars>>
  \/ AddStore(t) /\ UNCHANGED <<okSum, syncVars, watchVars>>
  \/ SaveEnter(t) /\ UNCHANGED <<okSum, syncVars, watchVars>>
  \/ SaveWrite(t) /\ UNCHANGED <<okSum, syncVars, watchVars>>
  \/ Exit(t) /\ UNCHANGED <<okSum, syncVars, watchVars>>

InitLock ==
  /\ Init
  /\ stock \in WatchLedgers

NextLock ==
  \/ Construct /\ UNCHANGED <<okSum, syncVars, watchVars>>
  \/ \E t \in Threads :
       \/ Request(t) /\ UNCHANGED <<okSum, syncVars, watchVars>>
       \/ Acquire(t) /\ UNCHANGED <<okSum, syncVars, watchVars>>
       \/ GetAll(t) /\ UNCHANGED <<okSum, syncVars, watchVars>>
       \/ Get(t) /\ UNCHANGED <<okSum, syncVars, watchVars>>
       \/ CheckAvailability(t) /\ UNCHANGED <<okSum, syncVars, watchVars>>
       \/ Update(t) /\ UNCHANGED <<okSum, syncVars, watchVars>>
       \/ UpdateBulk(t) /\ UNCHANGED <<okSum, syncVars, watchVars>>
       \/ DeductCheck(t) /\ UNCHANGED <<okSum, syncVars, watchVars>>
       \/ DeductLoad(t) /\ UNCHANGED <<okSum, syncVars, watchVars>>
       \/ DeductStore(t) /\ UNCHANGED <<okSum, syncVars, watchVars>>
       \/ AddLoad(t) /\ UNCHANGED <<okSum, syncVars, watchVars>>
       \/ AddStore(t) /\ UNCHANGED <<okSum, syncVars, watchVars>>
       \/ SaveEnter(t) /\ UNCHANGED <<okSum, syncVars, watchVars>>
       \/ SaveWrite(t) /\ UNCHANGED <<okSum, syncVars, watchVars>>
       \/ Exit(t) /\ UNCHANGED <<okSum, syncVars, watchVars>>

\* a thread inside a method keeps being scheduled; a release lets a thread
\* that is blocked on the lock proceed, so a thread that finds the lock
\* free again and again gets it
SpecLock ==
  /\ InitLock
  /\ [][NextLock]_vars
  /\ \A t \in Threads : WF_vars(BodyStep(t))
  /\ \A t \in Threads : SF_vars(Acquire(t) /\ UNCHANGED <<okSum, syncVars, watchVars>>)

\* request handlers of app.py calling its module-level ledger
AppStep(t) ==
  \/ AppAcquire(t) /\ UNCHANGED <<okSum, syncVars, watchVars>>
  \/ AppUpdate(t) /\ UNCHANGED <<okSum, syncVars, watchVars>>
  \/ AppDeduct(t) /\ UNCHANGED <<okSum, syncVars, watchVars>>
  \/ AppCheck(t) /\ UNCHANGED <<okSum, syncVars, watchVars>>
  \/ AppSaveAcquire(t) /\ UNCHANGED <<okSum, syncVars, watchVars>>
  \/ AppSaveWrite(t) /\ UNCHANGED <<okSum, syncVars, watchVars>>
  \/ AppReturn(t) /\ UNCHANGED <<okSum, syncVars, watchVars>>

\* load_stock() has run at import
InitApp ==
  /\ Init
  /\ stock \in WatchLedgers

NextApp ==
  \E t \in Threads :
    \/ AppCall(t) /\ UNCHANGED <<okSum, syncVars, watchVars>>
    \/ AppAcquire(t) /\ UNCHANGED <<okSum, syncVars, watchVars>>
    \/ AppUpdate(t) /\ UNCHANGED <<okSum, syncVars, watchVars>>
    \/ AppDeduct(t) /\ UNCHANGED <<okSum, syncVars, watchVars>>
    \/ AppCheck(t) /\ UNCHANGED <<okSum, syncVars, watchVars>>
    \/ AppSaveAcquire(t) /\ UNCHANGED <<okSum, syncVars, watchVars>>
    \/ AppSaveWrite(t) /\ UNCHANGED <<okSum, syncVars, watchVars>>
    \/ AppReturn(t) /\ UNCHANGED <<okSum, syncVars, watchVars>>

\* a thread that can run does run; a thread blocked on a lock that is
\* released again and again gets it
SpecApp ==
  /\ InitApp
  /\ [][NextApp]_vars
  /\ \A t \in Threads : SF_vars(AppStep(t))

(* ------------------------------ claims --------------------------------- *)
\* a deduct that has run to its return, the lock still held
AtDeductExit(t) == pc[t] = "exit" /\ op[t].name = "deduct"

\* C1: under any interleaving of concurrent deducts with positive amounts,
\* the amounts of the deducts of a product that returned success sum to at
\* most the quantity the product started with
C1_NoOverDeduction ==
  \A p \in Products : okSum[p] <= DictGet(q0, p, 0)

\* one unit, two deduct(P, 1): one has succeeded, the other returns failure
C1_Witness ==
  \E p \in Products, t \in Threads :
    /\ DictGet(q0, p, 0) = 1
    /\ okSum[p] = 1
    /\ AtDeductExit(t) /\ op[t].p = p /\ op[t].q = 1
    /\ ~ret[t].ok

\* C2: deduct(P, d) on an unknown P or with d above P's quantity returns
\* failure with ledger and file exactly as when it got the lock
C2_FailedDeductChangesNothing ==
  \A t \in Threads :
    (/\ AtDeductExit(t)
     /\ \/ op[t].p \notin DOMAIN pre[t].stock
        \/ op[t].q > pre[t].stock[op[t].p])
    => /\ ~ret[t].ok
       /\ stock = pre[t].stock
       /\ stockFile = pre[t].file

\* a deduct of more than the (non-zero) quantity at hand has been refused
C2_Witness ==
  \E t \in Threads :
    /\ AtDeductExit(t)
    /\ ret[t].msg = "insufficient"
    /\ pre[t].stock[op[t].p] > 0
    /\ op[t].q > pre[t].stock[op[t].p]

\* C3: deduct(P, d) with 0 < d <= q returns success, leaves P at q - d and
\* every other product as it was
C3_DeductWithinStock ==
  \A t \in Threads :
    (/\ AtDeductExit(t)
     /\ op[t].p \in DOMAIN pre[t].stock
     /\ 0 < op[t].q
     /\ op[t].q <= pre[t].stock[op[t].p])
    => /\ ret[t].ok
       /\ DOMAIN stock = DOMAIN pre[t].stock
       /\ \A x \in DOMAIN stock :
            stock[x] = IF x = op[t].p THEN pre[t].stock[x] - op[t].q
                                     ELSE pre[t].stock[x]

\* a deduct of the whole quantity of one of two products has returned
C3_Witness ==
  \E t \in Threads :
    /\ AtDeductExit(t)
    /\ ret[t].ok
    /\ DOMAIN pre[t].stock = Products
    /\ op[t].q = pre[t].stock[op[t].p]
    /\ op[t].q > 0

\* C4: every quantity of the ledger is a non-negative integer, whatever
\* updates, adds, bulk updates and deducts have run
C4_QuantitiesNonNegative ==
  \A p \in DOMAIN stock : stock[p] \in Nat

\* a successful deduct has taken a product down to zero
C4_Witness ==
  \E t \in Threads :
    /\ AtDeductExit(t)
    /\ ret[t].ok
    /\ op[t].q > 0
    /\ stock[op[t].p] = 0

\* C5: deduct(P, d) with d <= 0 does not return success and leaves the
\* ledger unchanged
C5_NonPositiveDeductRejected ==
  \A t \in Threads :
    (AtDeductExit(t) /\ op[t].q <= 0)
    => /\ ~ret[t].ok
       /\ stock = pre[t].stock

\* a bulk update that has applied some of its entries and not yet all
BulkPartial(u) ==
  /\ pc[u] = "update_bulk"
  /\ todo[u] # {}
  /\ todo[u] # DOMAIN op[u].m

\* C6: while a bulk update is between its first and its last entry, no
\* step of another thread changes the ledger or hands a value read from
\* it to a caller
C6_BulkUpdateAtomic ==
  [][\A u \in Threads :
       BulkPartial(u) =>
         \A t \in Threads \ {u} :
           pc'[t] # pc[t] => (stock' = stock /\ ret'[t] = ret[t])]_vars

\* a two-entry bulk update with one entry applied, which changed the ledger
C6_Witness ==
  \E u \in Threads :
    /\ BulkPartial(u)
    /\ DOMAIN op[u].m = Products
    /\ stock # pre[u].stock
    /\ stock # DictUpdate(pre[u].stock, op[u].m)

\* a reconciliation from the external file has handed its result to the
\* caller of sync_from_excel or of sync_excel
AtSyncReturn(t) ==
  /\ pc[t] = "returned"
  /\ result[t].op \in {"sync_from_excel", "sync_excel"}

\* the result is marked as an error: an exception, or success False
MarkedError(r) == r.raised \/ ~r.success

\* the five partitions of the products of L and C, stated product by product
ExpectedChanges(L, C) ==
  LET both == DOMAIN L \cap DOMAIN C
      delta(p) == [old |-> L[p], new |-> C[p],
                   change |-> IF C[p] > L[p] THEN C[p] - L[p] ELSE L[p] - C[p]]
  IN [added |-> [p \in DOMAIN C \ DOMAIN L |-> C[p]],
      removed |-> [p \in DOMAIN L \ DOMAIN C |-> L[p]],
      increased |-> [p \in {x \in both : C[x] > L[x]} |-> delta(p)],
      decreased |-> [p \in {x \in both : C[x] < L[x]} |-> delta(p)],
      unchanged |-> [p \in {x \in both : C[x] = L[x]} |-> C[p]]]

ExampleLedger == ("A" :> 10) @@ ("B" :> 5)
ExampleCandidate == ("A" :> 15) @@ ("C" :> 3)

\* C7: with a valid file yielding candidate map C and a ledger L,
\* sync_from_excel leaves the ledger equal to L overridden by C (a product
\* of C has C's quantity, a product of L absent from C keeps its own), and
\* the ChangeSet it returns is the diff of L and C, which lists under
\* 'removed' the products of L that C lacks; L = {A:10, B:5} and
\* C = {A:15, C:3} give increased A, removed B, added C, ledger
\* {A:15, B:5, C:3}
C7_SyncMergesCandidate ==
  /\ \A t \in Reconcilers :
       (AtSyncReturn(t) /\ sy[t].src.kind = "valid") =>
         LET L == opPre[t].stock
             C == ReadStock(sy[t].src).data
         IN /\ DOMAIN stock = DOMAIN L \cup DOMAIN C
            /\ \A p \in DOMAIN C : stock[p] = C[p]
            /\ \A p \in DOMAIN L \ DOMAIN C : stock[p] = L[p]
            /\ ~MarkedError(result[t]) =>
                 /\ result[t].changes = ExpectedChanges(L, C)
                 /\ \A p \in DOMAIN L \ DOMAIN C :
                      /\ p \in DOMAIN result[t].changes.removed
                      /\ p \in DOMAIN stock
  /\ TrackChanges(ExampleLedger, ExampleCandidate) =
       [added |-> ("C" :> 3),
        removed |-> ("B" :> 5),
        increased |-> ("A" :> [old |-> 10, new |-> 15, change |-> 5]),
        decreased |-> EmptyMap,
        unchanged |-> EmptyMap]
  /\ DictUpdate(ExampleLedger, ExampleCandidate) =
       ("A" :> 15) @@ ("B" :> 5) @@ ("C" :> 3)

\* a reconciliation has returned one product raised and another reported
\* removed, which the ledger still holds
C7_Witness ==
  \E t \in Reconcilers :
    /\ AtSyncReturn(t) /\ sy[t].src.kind = "valid"
    /\ ~MarkedError(result[t])
    /\ DOMAIN result[t].changes.increased # {}
    /\ \E p \in DOMAIN result[t].changes.removed :
         p \in DOMAIN stock /\ stock[p] > 0

\* C8: a sync_from_excel that directly follows a completed sync_from_excel
\* of the same valid file, nothing else having touched the ledger, returns
\* empty added, removed, increased and decreased partitions, a count of 0,
\* and appends nothing to the audit log
C8_SecondSyncChangesNothing ==
  \A t \in Reconcilers :
    (AtSyncReturn(t) /\ sy[t].src.kind = "valid" /\ sy[t].again) =>
      /\ ~MarkedError(result[t]) =>
           /\ \A k \in {"added", "removed", "increased", "decreased"} :
                DOMAIN result[t].changes[k] = {}
           /\ result[t].count = 0
      /\ audit = opPre[t].audit

\* C9: a reconciliation whose source fails as a whole (the file is missing,
\* lacks the Product/Quantity columns or cannot be read; the API call
\* fails, times out, or its body lacks the 'stock' key) returns with the
\* ledger, the ledger's file and the audit log as they were at the call
C9_SourceFailureChangesNothing ==
  \A t \in Reconcilers :
    (/\ pc[t] = "returned"
     /\ \/ AtSyncReturn(t) /\ sy[t].src.kind # "valid"
        \/ result[t].op = "fetch_from_api" /\ sy[t].resp \in ApiFailures)
    => /\ stock = opPre[t].stock
       /\ stockFile = opPre[t].file
       /\ audit = opPre[t].audit

\* a reconciliation from a file without the two columns has returned, the
\* ledger holding a product with stock
C9_Witness ==
  \E t \in Reconcilers :
    /\ AtSyncReturn(t)
    /\ sy[t].src.kind = "nocolumns"
    /\ \E p \in DOMAIN stock : stock[p] > 0

\* C10: a reconciliation from a file that is missing or malformed reaches
\* the caller marked as an error, and a result not marked as an error
\* carries a ChangeSet with all five partitions
C10_SourceFailureSurfaced ==
  \A t \in Reconcilers :
    AtSyncReturn(t) =>
      /\ sy[t].src.kind # "valid" => MarkedError(result[t])
      /\ ~MarkedError(result[t]) => PartNames \subseteq DOMAIN result[t].changes

\* C11: a tick of the monitor loop that reads the timestamp its previous
\* tick read invokes no reconciliation; a tick that reads another one
\* invokes exactly one; and no two reconciliations of the watcher run at
\* the same time
C11_OneReconciliationPerChange ==
  /\ \A t \in Watchers :
       /\ (mon[t].calls > 0 /\ mon[t].prev > 0) => mon[t].cur # mon[t].prev
       /\ (pc[t] = "mon_sleep" /\ mon[t].prev > 0 /\ mon[t].cur > 0
           /\ mon[t].cur # mon[t].prev) => mon[t].calls = 1
       /\ mon[t].calls <= 1
  /\ Cardinality({t \in Threads : result[t].op = "monitor"}) <= 1

\* C12: the monitor loop invokes no reconciliation in a tick that read a
\* timestamp the file got from write_stock
C12_SelfWriteNotReconciled ==
  \A t \in Watchers :
    mon[t].calls > 0 => mon[t].cur \notin selfTimes

\* C13: the first timestamp a monitor loop reads after its start is only
\* recorded; a reconciliation is invoked only in a later tick, whose
\* timestamp differs from the recorded one
C13_FirstReadOnlySeeds ==
  \A t \in Watchers :
    mon[t].calls > 0 => (~mon[t].first /\ mon[t].cur # mon[t].rec)

\* the audit entries appended since the reconciliation of t began
Appended(t) == SubSeq(audit, Len(opPre[t].audit) + 1, Len(audit))

\* a sync_from_excel of a valid file has returned its ChangeSet
AtSyncSuccess(t) ==
  /\ AtSyncReturn(t)
  /\ sy[t].src.kind = "valid"
  /\ ~MarkedError(result[t])

LoggedParts == {"added", "removed", "increased", "decreased"}

\* the products of the four partitions that are logged
LoggedProducts(cs) == UNION {DOMAIN cs[k] : k \in LoggedParts}

EntriesFor(t, p) == {i \in 1..Len(Appended(t)) : Appended(t)[i].product = p}

\* C14 as stated: after a successful sync_from_excel, exactly one audit
\* entry has been appended for each product of added, removed, increased
\* and decreased, none for an unchanged product, and the returned count is
\* the number of entries appended, the sum of the four partitions' sizes
C14_OneEntryPerChange ==
  \A t \in Reconcilers :
    AtSyncSuccess(t) =>
      LET cs == result[t].changes
      IN /\ \A p \in LoggedProducts(cs) : Cardinality(EntriesFor(t, p)) = 1
         /\ \A p \in DOMAIN cs.unchanged : EntriesFor(t, p) = {}
         /\ result[t].count = Len(Appended(t))
         /\ result[t].count = Cardinality(LoggedProducts(cs))

\* C14, amended: after a successful sync_from_excel the returned count is
\* the sum of the sizes of added, removed, increased and decreased; every
\* entry appended is the entry of one product of those partitions, at most
\* one per product and none for an unchanged product; the entries appended
\* can be fewer than the count, and are exactly one per product when the
\* audit storage does not fail
C14_OneAttemptPerChange ==
  \A t \in Reconcilers :
    AtSyncSuccess(t) =>
      LET cs == result[t].changes
          new == Appended(t)
      IN /\ result[t].count = Cardinality(LoggedProducts(cs))
         /\ \A i \in 1..Len(new) :
              \E k \in LoggedParts : \E p \in DOMAIN cs[k] :
                new[i] = SyncLogEntry(k, p, cs[k][p])
         /\ \A p \in LoggedProducts(cs) : Cardinality(EntriesFor(t, p)) <= 1
         /\ \A p \in DOMAIN cs.unchanged : EntriesFor(t, p) = {}
         /\ Len(new) <= result[t].count
         /\ ~faulty =>
              \A p \in LoggedProducts(cs) : Cardinality(EntriesFor(t, p)) = 1

\* a reconciliation has returned a count of 2 with one of the two entries
\* lost and the other appended
C14_Witness ==
  \E t \in Reconcilers :
    /\ AtSyncSuccess(t)
    /\ result[t].count = 2
    /\ Len(Appended(t)) = 1
    /\ DOMAIN result[t].changes.unchanged = {}

\* the sum of the deltas the entries of log record for product p
RECURSIVE SumDeltas(_, _)
SumDeltas(log, p) ==
  IF Len(log) = 0 THEN 0
  ELSE (IF Head(log).product = p THEN Head(log).quantity_change ELSE 0)
       + SumDeltas(Tail(log), p)

\* C15: when a reconciliation (from the file or from the API) has returned
\* and the audit storage has not failed, every entry it appended records
\* the quantity the ledger now holds for its product and the difference to
\* the quantity held before (0 if absent), so that for every product the
\* quantity before plus the deltas logged is the quantity now
C15_AuditMatchesLedger ==
  \A t \in Reconcilers :
    (pc[t] = "returned" /\ ~faulty) =>
      /\ \A i \in 1..Len(Appended(t)) :
           LET e == Appended(t)[i]
           IN /\ e.new_quantity = DictGet(stock, e.product, 0)
              /\ e.quantity_change =
                   e.new_quantity - DictGet(opPre[t].stock, e.product, 0)
      /\ \A p \in Products :
           DictGet(opPre[t].stock, p, 0) + SumDeltas(Appended(t), p)
             = DictGet(stock, p, 0)

\* track_changes(old, new) has returned to thread t
Tracked(t) == pc[t] = "returned" /\ result[t].op = "track_changes"

\* C16: the five partitions track_changes returns are pairwise disjoint in
\* their product names, and together hold exactly the products of old and
\* of new
C16_PartitionsExhaustiveDisjoint ==
  \A t \in TrackCallers :
    Tracked(t) =>
      LET cs == result[t].changes
      IN /\ DOMAIN cs = PartNames
         /\ \A j \in PartNames, k \in PartNames :
              j # k => DOMAIN cs[j] \cap DOMAIN cs[k] = {}
         /\ UNION {DOMAIN cs[k] : k \in PartNames}
              = DOMAIN sy[t].old \cup DOMAIN sy[t].new

\* two snapshots that share no product have been compared
C16_Witness ==
  \E t \in TrackCallers :
    /\ Tracked(t)
    /\ DOMAIN sy[t].old # {} /\ DOMAIN sy[t].new # {}
    /\ DOMAIN sy[t].old \cap DOMAIN sy[t].new = {}

\* C17: track_changes(S, S) has empty added, removed, increased and
\* decreased partitions, and its unchanged partition is S
C17_SelfDiffUnchanged ==
  \A t \in TrackCallers :
    (Tracked(t) /\ sy[t].old = sy[t].new) =>
      LET cs == result[t].changes
      IN /\ \A k \in LoggedParts : DOMAIN cs[k] = {}
         /\ cs.unchanged = sy[t].old

\* a snapshot of two products, one at zero, has been compared to itself
C17_Witness ==
  \E t \in TrackCallers :
    /\ Tracked(t)
    /\ sy[t].old = sy[t].new
    /\ DOMAIN sy[t].old = Products
    /\ \E p \in Products : sy[t].old[p] = 0
    /\ \E p \in Products : sy[t].old[p] > 0

\* C18: track_changes classifies a product only in new as added with
\* new's quantity, only in old as removed with old's quantity (also when
\* that quantity is 0), in both with new > old as increased and with
\* new < old as decreased, each with old, new and the positive difference,
\* and in both with equal quantities as unchanged with that quantity
C18_Classification ==
  \A t \in TrackCallers :
    Tracked(t) =>
      LET cs == result[t].changes
          old == sy[t].old
          new == sy[t].new
      IN \A p \in Products :
           /\ (p \notin DOMAIN old /\ p \in DOMAIN new) =>
                (p \in DOMAIN cs.added /\ cs.added[p] = new[p])
           /\ (p \in DOMAIN old /\ p \notin DOMAIN new) =>
                /\ p \in DOMAIN cs.removed /\ cs.removed[p] = old[p]
                /\ p \notin DOMAIN cs.unchanged
           /\ (p \in DOMAIN old /\ p \in DOMAIN new /\ new[p] > old[p]) =>
                /\ p \in DOMAIN cs.increased
                /\ cs.increased[p] =
                     [old |-> old[p], new |-> new[p], change |-> new[p] - old[p]]
                /\ cs.increased[p].change > 0
           /\ (p \in DOMAIN old /\ p \in DOMAIN new /\ new[p] < old[p]) =>
                /\ p \in DOMAIN cs.decreased
                /\ cs.decreased[p] =
                     [old |-> old[p], new |-> new[p], change |-> old[p] - new[p]]
                /\ cs.decreased[p].change > 0
           /\ (p \in DOMAIN old /\ p \in DOMAIN new /\ new[p] = old[p]) =>
                (p \in DOMAIN cs.unchanged /\ cs.unchanged[p] = new[p])
           /\ (p \notin DOMAIN old /\ p \notin DOMAIN new) =>
                \A k \in PartNames : p \notin DOMAIN cs[k]

\* a product at quantity 0 in old and absent from new has been classified,
\* next to a product that went down
C18_Witness ==
  \E t \in TrackCallers :
    /\ Tracked(t)
    /\ \E p \in DOMAIN sy[t].old \ DOMAIN sy[t].new : sy[t].old[p] = 0
    /\ DOMAIN result[t].changes.decreased # {}

\* a call of the named StockService method has run to its return, the
\* lock still held
AtExitOf(t, name) == pc[t] = "exit" /\ op[t].name = name

\* C19: update(P, q) with q >= 0 returns success and leaves P at q,
\* whatever P was before, and every other product as it was; and a get(P)
\* returns the quantity the ledger holds for P, so the get that follows
\* returns q
C19_UpdateThenGet ==
  /\ [](\A t \in Threads :
          AtExitOf(t, "update") =>
            /\ ret[t].ok
            /\ DictGet(stock, op[t].p, 0 - 1) = op[t].q
            /\ DOMAIN stock = DOMAIN pre[t].stock \cup {op[t].p}
            /\ \A x \in DOMAIN stock \ {op[t].p} : stock[x] = pre[t].stock[x])
  /\ [][\A t \in Threads :
          (pc[t] = "get" /\ pc'[t] = "exit") =>
            /\ ret'[t].val = DictGet(stock, op[t].p, 0)
            /\ stock' = stock]_vars

\* an update has overwritten a different quantity, next to another product
C19_Witness ==
  \E t \in Threads :
    /\ AtExitOf(t, "update")
    /\ op[t].p \in DOMAIN pre[t].stock
    /\ pre[t].stock[op[t].p] # op[t].q
    /\ DOMAIN pre[t].stock = Products

\* C20: after update_bulk(M) every product of M has M's quantity, every
\* other product has the quantity it had, and the ledger's products are
\* the old ones united with those of M
C20_BulkMerges ==
  \A t \in Threads :
    AtExitOf(t, "update_bulk") =>
      /\ \A p \in DOMAIN op[t].m : stock[p] = op[t].m[p]
      /\ \A p \in DOMAIN pre[t].stock \ DOMAIN op[t].m :
           p \in DOMAIN stock /\ stock[p] = pre[t].stock[p]
      /\ DOMAIN stock = DOMAIN pre[t].stock \cup DOMAIN op[t].m

\* a bulk update has changed one product and kept one it does not mention
C20_Witness ==
  \E t \in Threads :
    /\ AtExitOf(t, "update_bulk")
    /\ \E p \in DOMAIN pre[t].stock \ DOMAIN op[t].m : pre[t].stock[p] > 0
    /\ \E p \in DOMAIN op[t].m \cap DOMAIN pre[t].stock :
         op[t].m[p] # pre[t].stock[p]

\* a caller holds a map it got from get_all
Holding(t) == pc[t] \in {"hold", "hold_edited"}

\* C21: the map get_all returned is isolated from the ledger: an edit of
\* the returned map (an entry set, added or deleted) changes neither the
\* ledger nor its file, and no later step of anyone else changes the
\* content of a map that was returned earlier
C21_SnapshotIsolated ==
  [][\A t \in Threads :
       /\ (pc[t] = "hold" /\ pc'[t] = "hold_edited") =>
            /\ stock' = stock
            /\ stockFile' = stockFile
            /\ HeldMap(t)' # HeldMap(t)
       /\ (Holding(t) /\ pc'[t] = pc[t]) => HeldMap(t)' = HeldMap(t)]_vars

\* the holder has edited its map, the ledger has been changed by another
\* caller since, and the two differ
C21_Witness ==
  \E t \in Holders, u \in Threads \ Holders :
    /\ pc[t] = "hold_edited"
    /\ ret[t].snap # stock
    /\ AtExitOf(u, "update")
    /\ stock # pre[u].stock

\* C22: get(P) for a product the ledger does not hold returns 0, without
\* an error, adds no entry for P and writes nothing to the file;
\* check_availability(P, n) reports the quantity get would return and
\* whether it covers n, and changes nothing either
C22_ReadsChangeNothing ==
  /\ [](\A t \in Threads :
          (AtExitOf(t, "get") \/ AtExitOf(t, "check_availability")) =>
            /\ stock = pre[t].stock
            /\ stockFile = pre[t].file
            /\ ret[t].val = DictGet(stock, op[t].p, 0)
            /\ (AtExitOf(t, "get") /\ op[t].p \notin DOMAIN pre[t].stock) =>
                 (ret[t].ok /\ ret[t].val = 0)
            /\ AtExitOf(t, "check_availability") =>
                 (ret[t].ok <=> ret[t].val >= op[t].q))
  /\ [][\A t \in Threads :
          (pc[t] \in {"get", "check_availability"} /\ pc'[t] = "exit") =>
            /\ stock' = stock
            /\ stockFile' = stockFile]_vars

\* a get of a product missing from a ledger that holds another product
\* has returned
C22_Witness ==
  \E t \in Threads :
    /\ AtExitOf(t, "get")
    /\ op[t].p \notin DOMAIN stock
    /\ stock # EmptyMap
    /\ ret[t].val = 0

\* the ledger a mutator that got the lock on pre[t].stock leaves behind
Mutated(t) ==
  LET s == pre[t].stock
      p == op[t].p
  IN CASE op[t].name = "update" -> DictSet(s, p, op[t].q)
       [] op[t].name = "update_bulk" -> DictUpdate(s, op[t].m)
       [] op[t].name = "add" -> DictSet(s, p, DictGet(s, p, 0) + op[t].q)
       [] op[t].name = "deduct" -> DictSet(s, p, DictGet(s, p, 0) - op[t].q)
       [] OTHER -> s

\* an update, update_bulk, add or deduct has run to its return and
\* reports success
MutatorDone(t) ==
  /\ pc[t] = "exit"
  /\ op[t].name \in {"update", "update_bulk", "add", "deduct"}
  /\ ret[t].ok

\* the file does not hold the ledger: the write of save() has failed
WriteFailed == stockFile # stock

\* C23: when the write of the file fails during update, update_bulk, add
\* or a deduct that passed its checks, the call still returns success (no
\* exception leaves save), the ledger holds the mutated quantities, not
\* the ones from before the call, and a read returns what the ledger holds
C23_WriteFailureKeepsMutation ==
  /\ [](\A t \in Threads :
          /\ (pc[t] = "exit" /\ op[t].name \in {"update", "update_bulk", "add"})
               => ret[t].ok
          /\ (MutatorDone(t) /\ WriteFailed) => stock = Mutated(t))
  /\ [][\A t \in Threads :
          /\ (pc[t] = "save_io" /\ pc'[t] # "save_io") =>
               /\ pc'[t] = "exit"
               /\ ret'[t].ok
               /\ stock' = stock
          /\ (pc[t] = "get" /\ pc'[t] = "exit") =>
               ret'[t].val = DictGet(stock, op[t].p, 0)]_vars

\* an add has changed the ledger and returned success while the file
\* still holds the old ledger
C23_Witness ==
  \E t \in Threads :
    /\ MutatorDone(t)
    /\ op[t].name = "add"
    /\ WriteFailed
    /\ stockFile = pre[t].file
    /\ stock # pre[t].stock

\* no StockService method is between taking and releasing the lock
NoCriticalSection == lockOwner = NoThread

\* the file holds exactly the ledger; a ledger that was never saved is
\* empty and has no file
FileHoldsLedger ==
  \/ stockFile = stock
  \/ stockFile = NoStockFile /\ stock = EmptyMap

\* C24: when no write fails, the file holds exactly the ledger whenever no
\* ledger operation is inside its critical section, and a StockService
\* constructed on the path starts with the map in the file, or with the
\* empty map when there is no file
C24_FileHoldsLedger ==
  /\ []((~faulty /\ NoCriticalSection) => FileHoldsLedger)
  /\ [][(NoCriticalSection /\ NoCriticalSection'
           /\ \A t \in Threads : pc[t] = "idle" /\ pc'[t] = "idle") =>
          /\ stockFile # NoStockFile => stock' = stockFile
          /\ stockFile = NoStockFile => stock' = EmptyMap]_vars

\* with no write failing, a process that started without a file has
\* changed its ledger and is outside every critical section
C24_Witness ==
  /\ ~faulty
  /\ NoCriticalSection
  /\ q0 = EmptyMap
  /\ DOMAIN stock = Products
  /\ stockFile = stock

\* a quantity that is negative or not an integer
BadCell(c) == c.t # "int" \/ c.v < 0

\* the item of product p with quantity cell c was skipped without a trace
\* (ledger entry as before, no audit entry), or else applied
ItemHandled(t, p, c) ==
  IF BadCell(c)
    THEN /\ DictGet(stock, p, 0 - 1) = DictGet(opPre[t].stock, p, 0 - 1)
         /\ EntriesFor(t, p) = {}
    ELSE DictGet(stock, p, 0 - 1) = c.v

\* C25: with a valid source and working storage, a row or entry whose
\* quantity is negative or not an integer causes no ledger change and no
\* audit entry, every other row is applied, and the reconciliation
\* succeeds
C25_BadItemsSkipped ==
  \A t \in Reconcilers :
    /\ (~faulty /\ AtSyncReturn(t) /\ sy[t].src.kind = "valid") =>
         /\ ~MarkedError(result[t])
         /\ \A i \in 1..Len(sy[t].src.rows) :
              ItemHandled(t, sy[t].src.rows[i].product, sy[t].src.rows[i].cell)
    /\ (~faulty /\ pc[t] = "returned" /\ result[t].op = "fetch_from_api"
          /\ sy[t].resp = "ok") =>
         /\ ~MarkedError(result[t])
         /\ \A p \in DOMAIN sy[t].raw : ItemHandled(t, p, sy[t].raw[p])

\* log a is the beginning of log b
IsPrefix(a, b) == Len(a) <= Len(b) /\ SubSeq(b, 1, Len(a)) = a

\* C26: the audit log is append-only: every step leaves the entries it
\* finds in place and unchanged, so the log of an earlier state is a prefix
\* of the log of every later state
C26_AuditAppendOnly == [][IsPrefix(audit, audit')]_vars

\* a reconciliation has appended to a log that already held entries
C26_Witness ==
  \E t \in Reconcilers :
    /\ pc[t] = "returned"
    /\ Len(opPre[t].audit) > 0
    /\ Len(audit) > Len(opPre[t].audit)

\* C27: a storage failure while an audit entry is appended does not
\* propagate and does not block the mutation that triggered it: the
\* reconciliation is not ended by an exception, the ledger keeps the
\* mutation, and the remaining entries are still processed
C27_AuditFailureContained ==
  \A t \in Reconcilers :
    /\ (AtSyncReturn(t) /\ sy[t].src.kind = "valid") =>
         /\ ~MarkedError(result[t])
         /\ stock = DictUpdate(opPre[t].stock, sy[t].new)
         /\ \A k \in LoggedParts : Pending(t, k) = {}
    /\ (pc[t] = "returned" /\ result[t].op = "fetch_from_api"
          /\ sy[t].resp = "ok") =>
         /\ ~MarkedError(result[t])
         /\ sy[t].left = {}

\* C28: add(P, n) returns success and leaves P at the quantity it had
\* plus n, at n when the ledger did not hold P, and every other product
\* as it was
C28_AddIncrements ==
  \A t \in Threads :
    AtExitOf(t, "add") =>
      /\ ret[t].ok
      /\ op[t].p \in DOMAIN stock
      /\ stock[op[t].p] = DictGet(pre[t].stock, op[t].p, 0) + op[t].q
      /\ DOMAIN stock = DOMAIN pre[t].stock \cup {op[t].p}
      /\ \A x \in DOMAIN stock \ {op[t].p} : stock[x] = pre[t].stock[x]

\* an add has raised a product that was in stock, next to another product
C28_Witness ==
  \E t \in Threads :
    /\ AtExitOf(t, "add")
    /\ op[t].q > 0
    /\ DOMAIN pre[t].stock = Products
    /\ pre[t].stock[op[t].p] > 0

\* thread t is running _monitor_loop
InLoop(t) == pc[t] # "idle"

\* thread t's loop has called sync_from_excel in its current tick
Reconciling(t) == InLoop(t) /\ mon[t].calls > 0

\* C29: whatever start_monitoring and stop_monitoring calls are made, at
\* most one monitor loop is running at any time, and no change of the file
\* is reconciled by two loops
C29_AtMostOneLoop ==
  /\ Cardinality({t \in Loopers : InLoop(t)}) <= 1
  /\ \A t \in Loopers, u \in Loopers :
       (t # u /\ Reconciling(t) /\ Reconciling(u)) => mon[t].cur # mon[u].cur

\* thread t's loop is inside the sync_from_excel it called
InReconciliation(t) ==
  /\ result[t].op = "monitor"
  /\ pc[t] \notin {"idle", "returned"}

\* C30: stopping is cooperative and effective.  After stop_monitoring,
\* unless monitoring is started again, the loop exits in the end; the stop
\* itself moves no thread and touches no reconciliation, and a
\* reconciliation that is in progress returns its result, flag cleared or
\* not; a loop that has read the cleared flag exits there, and a thread
\* that has exited does nothing until a start makes it a loop again
C30_StopIsCooperative ==
  /\ (~monitoring_active) ~>
       (monitoring_active \/ \A t \in Watchers : pc[t] = "idle")
  /\ \A t \in Watchers :
       InReconciliation(t) ~> (pc[t] = "returned" /\ ~result[t].raised)
  /\ [][(monitoring_active /\ ~monitoring_active') =>
          UNCHANGED <<pc, mon, sy, result, stock, audit,
                      last_modified_time>>]_vars
  /\ [][\A t \in Watchers :
          /\ (pc[t] = "mon_while" /\ ~monitoring_active /\ pc'[t] # pc[t])
               => (pc'[t] = "idle" /\ nOps' = nOps)
          /\ (pc[t] = "idle" /\ pc'[t] # "idle")
               => (pc'[t] = "mon_while" /\ monitoring_active'
                     /\ ~monitoring_active)]_vars

\* a reconciliation has returned its result after the flag was cleared
C30_Witness ==
  \E t \in Watchers :
    /\ ~monitoring_active
    /\ pc[t] = "returned"
    /\ result[t].op = "monitor"
    /\ ~result[t].raised
    /\ Len(audit) > 0

\* the update_bulk of thread t's sync_from_excel holds the lock
InSyncBulk(t) ==
  /\ op[t].name = "update_bulk"
  /\ cont[t] = "sy_log"
  /\ pc[t] \in {"update_bulk", "save", "save_io", "exit"}

\* C31: the ChangeSet of a sync_from_excel is the diff between the ledger
\* as it was immediately before the reconciliation's update_bulk took
\* effect and the candidate, also when other ledger operations run
\* between its get_all and its update_bulk
C31_ChangeSetMatchesTransition ==
  \A t \in Reconcilers :
    InSyncBulk(t) => sy[t].changes = TrackChanges(pre[t].stock, sy[t].new)

\* the entries of an API response that the import applies
ValidEntries(raw) ==
  {p \in DOMAIN raw : PyInt(raw[p]).ok /\ PyInt(raw[p]).v >= 0}

\* thread t's import has applied and logged one entry and has another
\* one to apply
ImportHalfApplied(t) ==
  /\ result[t].op = "fetch_from_api"
  /\ pc[t] = "api_loop"
  /\ sy[t].count > 0
  /\ sy[t].left \cap ValidEntries(sy[t].raw) # {}

\* C32: an import from the API reaches the ledger as one bulk update:
\* while some but not all of its valid entries are applied, no get_all of
\* another thread returns and no other thread's mutation takes effect
C32_ImportIsOneBulkUpdate ==
  [][\A t \in Reconcilers, u \in Rivals :
       (ImportHalfApplied(t) /\ pc'[u] # pc[u]) =>
          /\ stock' = stock
          /\ ~(pc[u] = "get_all" /\ pc'[u] = "exit")]_vars

\* the files an operator may save that are valid
ValidEdits == {f \in EditFiles : f.kind = "valid"}

\* the file holds what an operator saved at time m
OperatorEdit(f, m) == excel = f /\ mtime = m /\ m \notin selfTimes

\* the ledger holds the quantities of file f
LedgerHolds(f) ==
  \A p \in DOMAIN ReadStock(f).data :
    DictGet(stock, p, 0 - 1) = ReadStock(f).data[p]

\* C33: while the watcher is running, every edit an operator makes to a
\* file that stays present and valid is applied in the end: the ledger
\* comes to hold the quantities of that edit, unless a later operator edit
\* has taken its place, for every interleaving with fulfilled orders
\* writing the same file
C33_EditEventuallyApplied ==
  \A f \in ValidEdits, m \in 2..MaxTime :
    OperatorEdit(f, m) ~>
      (LedgerHolds(f) \/ (mtime > m /\ mtime \notin selfTimes)
         \/ excel.kind # "valid")

(* C34: fulfill_delivery handles the items of an order one by one and
   undoes nothing: when it ends, it has returned success exactly when the
   deduct of every item of the order succeeded; when it has not, the ledger
   is the one it started from less the deducts that succeeded, and the audit
   log still holds what it held plus the entries of those deducts; and the
   external file has been rewritten only when every item was deducted. *)
AtDeliveryEnd(t) == pc[t] = "returned" /\ result[t].op = "fulfill_delivery"

ReturnedSuccess(t) == ~result[t].raised /\ result[t].success

\* the items of an order are its pieces that hold a colon
ItemsOf(order) == {i \in 1..Len(order) : order[i].kind # "nocolon"}

EveryItemDeducted(t) ==
  Len(sy[t].deducted) = Cardinality(ItemsOf(sy[t].order))

RECURSIVE AfterDeducts(_, _)
AfterDeducts(s, ds) ==
  IF ds = <<>> THEN s
  ELSE AfterDeducts(DictSet(s, Head(ds)[1], s[Head(ds)[1]] - Head(ds)[2]),
                    Tail(ds))

SuccessIffAllDeducted(t) ==
  AtDeliveryEnd(t) /\ ItemsOf(sy[t].order) # {} =>
    (ReturnedSuccess(t) <=> EveryItemDeducted(t))

NoRollback(t) ==
  AtDeliveryEnd(t) /\ ~ReturnedSuccess(t) =>
    /\ stock = AfterDeducts(opPre[t].stock, sy[t].deducted)
    /\ IsPrefix(opPre[t].audit, audit)
    /\ ~faulty => Len(audit) = Len(opPre[t].audit) + Len(sy[t].deducted)

RewrittenOnlyOnSuccess(t) ==
  sy[t].wrote => EveryItemDeducted(t) /\ sy[t].failed_items = <<>>

InOperation(t) == pc[t] \notin {"idle", "wait"}

LockFreeWhenUnused ==
  /\ (\A t \in Threads : ~InOperation(t)) =>
       lockOwner = NoThread /\ lockCount = 0
  /\ \A t \in Threads : lockOwner = t => InOperation(t)

AppMutating(t) ==
  /\ op[t].name \in {"update", "deduct"}
  /\ pc[t] = "app_save_lock"

AppReturned(t) == pc[t] = "idle" /\ ret[t].ok /\ lockOwner # t

C36_AppMutatorsReturn ==
  /\ \A t \in Threads : AppMutating(t) ~> AppReturned(t)
  /\ \A t \in Threads : (pc[t] = "app_lock") ~> (pc[t] # "app_lock")

(* C37: at the end of every tick in which the monitor loop read the
   file's timestamp, last_modified_time is the timestamp that tick read,
   whether the tick called sync_from_excel or not and however that call
   ended. *)
TickRead(t) == pc[t] = "mon_sleep" /\ mon[t].cur # 0

C37_TickRecordsTimestamp ==
  \A t \in Watchers : TickRead(t) => last_modified_time = mon[t].cur

(* C38: a tick that finds no file at the watched path calls no
   reconciliation, leaves last_modified_time, the ledger, its file and the
   audit log as they are, does not stop the loop, and goes to the sleep
   that ends the tick, after which the loop tests its flag again. *)
NoFileAtTick(t) == pc[t] = "mon_stat" /\ excel.kind = "missing"

C38_MissingFileSkipsTick ==
  [][\A t \in Watchers :
       /\ (NoFileAtTick(t) /\ pc'[t] # pc[t]) =>
            /\ pc'[t] = "mon_sleep"
            /\ mon'[t].calls = 0
            /\ nOps' = nOps
            /\ last_modified_time' = last_modified_time
            /\ stock' = stock /\ stockFile' = stockFile /\ audit' = audit
            /\ monitoring_active' = monitoring_active
       /\ (pc[t] = "mon_sleep" /\ pc'[t] # pc[t]) => pc'[t] = "mon_while"]_vars

\* the loop has recorded a timestamp, the file is then removed, and the
\* tick that finds it gone is at its sleep
C38_Witness ==
  \E t \in Watchers :
    /\ pc[t] = "mon_sleep"
    /\ mon[t].cur = 0 /\ mon[t].prev # 0
    /\ excel.kind = "missing"
    /\ last_modified_time > 0
    /\ monitoring_active

(* C39: when fetch_from_api has returned success, the audit entries it
   appended name no product whose imported quantity is the quantity the
   ledger already held, and the count it returned is the number of valid
   products that were new to the ledger or whose quantity changed. *)
AtApiSuccess(t) ==
  /\ pc[t] = "returned"
  /\ result[t].op = "fetch_from_api"
  /\ result[t].success

ImportedUnchanged(t) ==
  {p \in ValidEntries(sy[t].raw) :
     /\ p \in DOMAIN opPre[t].stock
     /\ PyInt(sy[t].raw[p]).v = opPre[t].stock[p]}

C39_ApiImportLogsChangesOnly ==
  \A t \in Reconcilers :
    AtApiSuccess(t) =>
      /\ \A i \in (Len(opPre[t].audit) + 1)..Len(audit) :
           audit[i].product \notin ImportedUnchanged(t)
      /\ result[t].count =
           Cardinality(ValidEntries(sy[t].raw) \ ImportedUnchanged(t))

====
